---- MODULE Spec2Model ----
(***************************************************************************)
(* The OpenAPI schema-rewriting pipeline of bootstrapper.transformers:     *)
(* the recursive tree walker, the transformer units and the order in which *)
(* transform_spec applies them.                                            *)
(*                                                                         *)
(* A document tree is a tagged value: a mapping (a function from key       *)
(* strings to trees, compared like a Python dict, that is without regard   *)
(* to key order), a sequence, a string, a boolean or null.  A Python       *)
(* exception leaving a transformer is the value Raised.                    *)
(* The documents hold no numbers.  The transformers change the tree in     *)
(* place and return it; here a call returns the changed tree as a value,   *)
(* so two places of a tree that share one Python object are two equal      *)
(* values.                                                                 *)
(***************************************************************************)
EXTENDS Integers, Sequences, FiniteSets, TLC

VARIABLES
    spec,   \* the document tree the caller holds (or Raised)
    hist,   \* the trees so far: hist[1] is the input, hist[i+1] the result of call i
    plan    \* the transformer calls the caller makes, in order

vars == <<spec, hist, plan>>

(***************************************************************************)
(* Document trees                                                          *)
(***************************************************************************)
Null == [k |-> "null"]
Str(s) == [k |-> "str", v |-> s]
Bool(b) == [k |-> "bool", b |-> b]
Map(f) == [k |-> "map", m |-> f]
List(s) == [k |-> "seq", s |-> s]
Raised == [k |-> "raised"]

EmptyMap == Map([x \in {} |-> Null])

IsDict(d) == d.k = "map"
IsList(d) == d.k = "seq"
IsStr(d) == d.k = "str"

\* key in data
Has(d, key) == key \in DOMAIN d.m
\* data.get(key)
Get(d, key) == IF key \in DOMAIN d.m THEN d.m[key] ELSE Null
\* data[key] = v
Put(d, key, v) == Map([x \in (DOMAIN d.m) \cup {key} |-> IF x = key THEN v ELSE d.m[x]])
\* del data[key]
Del(d, key) == Map([x \in (DOMAIN d.m) \ {key} |-> d.m[x]])
\* x in a_list
Elems(l) == {l.s[i] : i \in 1..Len(l.s)}

(***************************************************************************)
(* op1_null_anyof.py                                                       *)
(***************************************************************************)
\* a filter that drops only the mapping {type: "null"} with no further key
IsNullItem_ExactOnly(item) == item = Map("type" :> Str("null"))

\* isinstance(item, dict) and item.get("type") == "null"
IsNullItem(item) == IsDict(item) /\ Get(item, "type") = Str("null")

NotNullItem(item) == ~IsNullItem(item)

\* if "default" in d and d["default"] is None: del d["default"]
DropNullDefault(d) ==
    IF Has(d, "default") /\ d.m["default"] = Null THEN Del(d, "default") ELSE d

\* a merge in which the siblings of the node overwrite the member's keys
UnwrapSingle_SiblingsWin(data, key, member) ==
    LET siblings == (DOMAIN data.m) \ {key}
    IN  IF IsDict(member)
        THEN DropNullDefault(
                 Map([x \in (DOMAIN member.m) \cup siblings |->
                         IF x \in siblings THEN data.m[x] ELSE member.m[x]]))
        ELSE Raised

\* the len(filtered) == 1 branch: filtered[0].copy() merged with the siblings
UnwrapSingle(data, key, member) ==
    LET siblings == (DOMAIN data.m) \ {key}
    IN  IF IsDict(member)
        THEN DropNullDefault(
                 Map([x \in (DOMAIN member.m) \cup siblings |->
                         IF x \in DOMAIN member.m THEN member.m[x] ELSE data.m[x]]))
        ELSE IF IsList(member)
        THEN \* a list has copy(); unwrapped[k] = v and unwrapped["default"] raise
             IF \/ \E x \in siblings : Str(x) \notin Elems(member)
                \/ Str("default") \in Elems(member)
             THEN Raised
             ELSE member
        ELSE Raised  \* a scalar has no copy()

\* a filter that leaves default: null on the node when the union is kept
_process_nullable_array_KeepsDefault(data, key) ==
    LET array_list == data.m[key]
    IN  IF ~IsList(array_list) THEN data
        ELSE LET filtered == SelectSeq(array_list.s, NotNullItem)
             IN  IF Len(filtered) = Len(array_list.s) THEN data
                 ELSE IF Len(filtered) = 0 THEN Map("type" :> Str("null"))
                 ELSE IF Len(filtered) = 1 THEN UnwrapSingle(data, key, filtered[1])
                 ELSE Put(data, key, List(filtered))

_process_nullable_array(data, key) ==
    LET array_list == data.m[key]
    IN  IF ~IsList(array_list) THEN data
        ELSE LET filtered == SelectSeq(array_list.s, NotNullItem)
             IN  IF Len(filtered) = Len(array_list.s) THEN data
                 ELSE IF Len(filtered) = 0 THEN Map("type" :> Str("null"))
                 ELSE IF Len(filtered) = 1 THEN UnwrapSingle(data, key, filtered[1])
                 ELSE DropNullDefault(Put(data, key, List(filtered)))

\* "key in data" followed by the call, for the value the first call returned
ProcessIfPresent(data, key) ==
    IF data = Raised THEN Raised
    ELSE IF IsDict(data)
    THEN IF Has(data, key) THEN _process_nullable_array(data, key) ELSE data
    ELSE \* a list came back from the first call: data[key] raises
         IF Str(key) \in Elems(data) THEN Raised ELSE data

op1_transform_node(data) ==
    IF ~IsDict(data) THEN data
    ELSE ProcessIfPresent(ProcessIfPresent(data, "anyOf"), "oneOf")

(***************************************************************************)
(* op2_const_enum.py                                                       *)
(***************************************************************************)
op2_transform_node(data) ==
    IF ~IsDict(data) THEN data
    ELSE IF Has(data, "const")
    THEN Put(Del(data, "const"), "enum", List(<<data.m["const"]>>))
    ELSE data

(***************************************************************************)
(* op3_float_to_number.py                                                  *)
(***************************************************************************)
op3_transform_node(data) ==
    IF ~IsDict(data) THEN data
    ELSE IF Get(data, "type") = Str("float")
    THEN Put(Put(data, "type", Str("number")), "format", Str("float"))
    ELSE data

(***************************************************************************)
(* op3_nullable.py (imported by the manager as op4_nullable)               *)
(***************************************************************************)
\* for item in schema[key]: isinstance(item, dict) and item.get("type") == "null"
HasNullItem(schema, key) ==
    /\ Has(schema, key)
    /\ IsList(schema.m[key])
    /\ \E i \in 1..Len(schema.m[key].s) : IsNullItem(schema.m[key].s[i])

_is_nullable_property(schema) ==
    IF ~IsDict(schema) THEN FALSE
    ELSE IF Get(schema, "nullable") = Bool(TRUE) THEN TRUE
    ELSE IF IsList(Get(schema, "type")) THEN Str("null") \in Elems(schema.m["type"])
    ELSE HasNullItem(schema, "oneOf") \/ HasNullItem(schema, "anyOf")

NotNullType(t) == t # Str("null")

\* the "type" step of _clean_null_constructs
CleanTypeList(schema) ==
    IF IsList(Get(schema, "type"))
    THEN LET non_null_types == SelectSeq(schema.m["type"].s, NotNullType)
         IN  IF Len(non_null_types) = 1 THEN Put(schema, "type", non_null_types[1])
             ELSE IF Len(non_null_types) > 1 THEN Put(schema, "type", List(non_null_types))
             ELSE schema
    ELSE schema

\* one round of the loop "for key in [oneOf, anyOf]" of _clean_null_constructs
CleanUnion(schema, key) ==
    IF Has(schema, key) /\ IsList(schema.m[key])
    THEN LET non_null_items == SelectSeq(schema.m[key].s, NotNullItem)
         IN  IF Len(non_null_items) = 1
             THEN LET remaining_item == non_null_items[1]
                  IN  IF IsDict(remaining_item)
                      THEN LET rest == Del(schema, key)
                           IN  Map([x \in (DOMAIN rest.m) \cup (DOMAIN remaining_item.m) |->
                                       IF x \in DOMAIN rest.m THEN rest.m[x]
                                       ELSE remaining_item.m[x]])
                      ELSE schema
             ELSE IF Len(non_null_items) > 1 THEN Put(schema, key, List(non_null_items))
             ELSE Del(schema, key)
    ELSE schema

_clean_null_constructs(schema) ==
    IF ~IsDict(schema) THEN schema
    ELSE LET s1 == IF Has(schema, "nullable") THEN Del(schema, "nullable") ELSE schema
         IN  CleanUnion(CleanUnion(CleanTypeList(s1), "oneOf"), "anyOf")

\* a list or a mapping as a required entry is unhashable: "prop_name in properties" raises
Unhashable(x) == IsDict(x) \/ IsList(x)

\* every name counts as a key of properties
IsKeyOf_AnyName(x, properties) == IsStr(x)

IsKeyOf(x, properties) == IsStr(x) /\ x.v \in DOMAIN properties.m

\* the required edit of _transform_node (lines 129-151)
NullableRequiredEdit(data) ==
    IF Has(data, "properties") /\ Has(data, "required")
       /\ IsDict(data.m["properties"]) /\ IsList(data.m["required"])
    THEN LET properties == data.m["properties"]
             required == data.m["required"].s
             Keep(prop_name) == /\ IsKeyOf(prop_name, properties)
                                /\ ~_is_nullable_property(properties.m[prop_name.v])
             non_nullable_properties == SelectSeq(required, Keep)
         IN  IF \E i \in 1..Len(required) : Unhashable(required[i]) THEN Raised
             ELSE IF Len(non_nullable_properties) > 0
             THEN Put(data, "required", List(non_nullable_properties))
             ELSE Del(data, "required")
    ELSE data

\* the cleaning of every property schema (lines 153-157)
CleanProperties(data) ==
    IF Has(data, "properties") /\ IsDict(data.m["properties"])
    THEN Put(data, "properties",
             Map([x \in DOMAIN data.m["properties"].m |->
                     _clean_null_constructs(data.m["properties"].m[x])]))
    ELSE data

\* the cleaning of the node itself (lines 159-162)
CleanSelf(data) ==
    IF Has(data, "type") \/ Has(data, "nullable") \/ Has(data, "oneOf") \/ Has(data, "anyOf")
    THEN _clean_null_constructs(data)
    ELSE data

op4_transform_node(data) ==
    IF ~IsDict(data) THEN data
    ELSE LET edited == NullableRequiredEdit(data)
         IN  IF edited = Raised THEN Raised ELSE CleanSelf(CleanProperties(edited))

(***************************************************************************)
(* op6_clean_required.py                                                   *)
(***************************************************************************)
\* required beside no properties removed whatever its value
op6_transform_node_Unconditional(data) ==
    IF ~IsDict(data) THEN data
    ELSE IF Has(data, "properties") /\ Has(data, "required")
    THEN IF IsDict(data.m["properties"]) /\ IsList(data.m["required"])
         THEN LET properties == data.m["properties"]
                  required == data.m["required"].s
                  InProps(key) == IsKeyOf(key, properties)
                  filtered_required == SelectSeq(required, InProps)
              IN  IF \E i \in 1..Len(required) : Unhashable(required[i]) THEN Raised
                  ELSE IF Len(filtered_required) > 0
                  THEN Put(data, "required", List(filtered_required))
                  ELSE Del(data, "required")
         ELSE data
    ELSE IF Has(data, "required") THEN Del(data, "required")
    ELSE data

op6_transform_node(data) ==
    IF ~IsDict(data) THEN data
    ELSE IF Has(data, "properties") /\ Has(data, "required")
    THEN IF IsDict(data.m["properties"]) /\ IsList(data.m["required"])
         THEN LET properties == data.m["properties"]
                  required == data.m["required"].s
                  InProps(key) == IsKeyOf(key, properties)
                  filtered_required == SelectSeq(required, InProps)
              IN  IF \E i \in 1..Len(required) : Unhashable(required[i]) THEN Raised
                  ELSE IF Len(filtered_required) > 0
                  THEN Put(data, "required", List(filtered_required))
                  ELSE Del(data, "required")
         ELSE data
    ELSE IF Has(data, "required") /\ ~Has(data, "properties")
    THEN IF IsList(data.m["required"]) THEN Del(data, "required") ELSE data
    ELSE data

(***************************************************************************)
(* Strings that the code takes apart.  A string is a sequence of tokens:   *)
(* each of the characters # / . + - and the blank is a token of its own,   *)
(* so is a quote, a backslash and a character outside ASCII, and every     *)
(* maximal run of other characters is one token.  A string that is not     *)
(* listed holds none of these characters and is a single token.            *)
(***************************************************************************)
StrTokens ==
    "" :> <<>> @@
    "3.1.0" :> <<"3", ".", "1", ".", "0">> @@
    "3.0.0" :> <<"3", ".", "0", ".", "0">> @@
    "3.0.3" :> <<"3", ".", "0", ".", "3">> @@
    "3.1" :> <<"3", ".", "1">> @@
    "3.2.0" :> <<"3", ".", "2", ".", "0">> @@
    "3" :> <<"3">> @@
    "4.0.0" :> <<"4", ".", "0", ".", "0">> @@
    "2.0" :> <<"2", ".", "0">> @@
    "3.x.0" :> <<"3", ".", "x", ".", "0">> @@
    "x.1.0" :> <<"x", ".", "1", ".", "0">> @@
    " 3.1.0" :> <<" ", "3", ".", "1", ".", "0">> @@
    "3. 1.0" :> <<"3", ".", " ", "1", ".", "0">> @@
    "+3.1.0" :> <<"+", "3", ".", "1", ".", "0">> @@
    "3.-1.0" :> <<"3", ".", "-", "1", ".", "0">> @@
    "#/components/schemas/Tags" :> <<"#", "/", "components", "/", "schemas", "/", "Tags">> @@
    "#/components/schemas/TagsAlias" :> <<"#", "/", "components", "/", "schemas", "/", "TagsAlias">> @@
    "#/components/schemas/Loop" :> <<"#", "/", "components", "/", "schemas", "/", "Loop">> @@
    "#/components/schemas/Form" :> <<"#", "/", "components", "/", "schemas", "/", "Form">> @@
    "#/components/schemas/Missing" :> <<"#", "/", "components", "/", "schemas", "/", "Missing">> @@
    "#/components/requestBodies/Upload" :> <<"#", "/", "components", "/", "requestBodies", "/", "Upload">> @@
    "#/components/schemas/Name" :> <<"#", "/", "components", "/", "schemas", "/", "Name">> @@
    "#/components/schemas/Form/properties/tags/items" :>
        <<"#", "/", "components", "/", "schemas", "/", "Form", "/", "properties", "/",
          "tags", "/", "items">> @@
    "#/components/schemas/Form/properties/x/items" :>
        <<"#", "/", "components", "/", "schemas", "/", "Form", "/", "properties", "/",
          "x", "/", "items">> @@
    "#//components/schemas/Tags" :> <<"#", "/", "/", "components", "/", "schemas", "/", "Tags">> @@
    "other.yaml#/components/schemas/Tags" :> <<"other", ".", "yaml", "#", "/", "components", "/", "schemas", "/", "Tags">> @@
    "multipart/form-data" :> <<"multipart", "/", "form", "-", "data">> @@
    "application/json" :> <<"application", "/", "json">> @@
    "#/components/schemas/Tags/type" :>
        <<"#", "/", "components", "/", "schemas", "/", "Tags", "/", "type">> @@
    "#/components/schemas/Tags/type/x" :>
        <<"#", "/", "components", "/", "schemas", "/", "Tags", "/", "type", "/", "x">> @@
    "#/components/schemas/Tags/items" :>
        <<"#", "/", "components", "/", "schemas", "/", "Tags", "/", "items">> @@
    "#/components/schemas/Tags/" :> <<"#", "/", "components", "/", "schemas", "/", "Tags", "/">> @@
    "#/components//schemas/Tags" :> <<"#", "/", "components", "/", "/", "schemas", "/", "Tags">> @@
    "#/#/components/schemas/Tags" :>
        <<"#", "/", "#", "/", "components", "/", "schemas", "/", "Tags">> @@
    "#/components" :> <<"#", "/", "components">> @@
    "#/" :> <<"#", "/">> @@
    "#" :> <<"#">> @@
    "components/schemas/Tags" :> <<"components", "/", "schemas", "/", "Tags">> @@
    "/components/schemas/Tags" :> <<"/", "components", "/", "schemas", "/", "Tags">> @@
    "Née" :> <<"N", "é", "e">> @@
    "N\\u00e9e" :> <<"N", "\\u00e9", "e">> @@
    "#/components/schemas/Née" :>
        <<"#", "/", "components", "/", "schemas", "/", "N", "é", "e">> @@
    "/upload" :> <<"/", "upload">>

Tokens(s) ==
    LET In(table) == IF s \in DOMAIN table THEN table[s] ELSE <<s>>
    IN  In(StrTokens)

\* the string with the given tokens ("" for none that the documents hold)
NoSuchKey == "\\no-such-key"
Join(toks) ==
    LET In(table) == IF \E s \in DOMAIN table : table[s] = toks
                     THEN CHOOSE s \in DOMAIN table : table[s] = toks
                     ELSE NoSuchKey
    IN  IF Len(toks) = 1 THEN toks[1] ELSE In(StrTokens)

\* str.split(sep): the token runs between the separators
RECURSIVE SplitAcc(_, _, _)
SplitAcc(toks, sep, cur) ==
    IF toks = <<>> THEN <<cur>>
    ELSE IF Head(toks) = sep THEN <<cur>> \o SplitAcc(Tail(toks), sep, <<>>)
    ELSE SplitAcc(Tail(toks), sep, Append(cur, Head(toks)))

Split(toks, sep) == SplitAcc(toks, sep, <<>>)

\* str.lstrip(chars)
RECURSIVE LStrip(_, _)
LStrip(toks, chars) ==
    IF toks # <<>> /\ Head(toks) \in chars THEN LStrip(Tail(toks), chars) ELSE toks

RECURSIVE RStrip(_, _)
RStrip(toks, chars) ==
    IF toks # <<>> /\ toks[Len(toks)] \in chars
    THEN RStrip(SubSeq(toks, 1, Len(toks) - 1), chars)
    ELSE toks

\* the decimal numerals of the documents and their values
Numerals == ("0" :> 0) @@ ("1" :> 1) @@ ("2" :> 2) @@ ("3" :> 3) @@ ("4" :> 4)

\* int(text) succeeds: blanks around, an optional sign, one numeral
IntOk(toks) ==
    LET t == RStrip(LStrip(toks, {" "}), {" "})
        body == IF t # <<>> /\ Head(t) \in {"+", "-"} THEN Tail(t) ELSE t
    IN  Len(body) = 1 /\ body[1] \in DOMAIN Numerals

\* the value of int(text) where it succeeds
IntVal(toks) ==
    LET t == RStrip(LStrip(toks, {" "}), {" "})
    IN  IF Head(t) = "-" THEN 0 - Numerals[t[2]]
        ELSE IF Head(t) = "+" THEN Numerals[t[2]]
        ELSE Numerals[t[1]]

(***************************************************************************)
(* op4_format_fix.py (imported by the manager as op5_format_fix)           *)
(***************************************************************************)
\* a gate that looks at the major version only
_should_convert_spec_MajorOnly(d) ==
    LET version == IF Has(d, "openapi") THEN d.m["openapi"] ELSE Str("3.0.0")
    IN  IF IsStr(version)
        THEN LET parts == Split(Tokens(version.v), ".")
             IN  Len(parts) >= 2 /\ IntOk(parts[1]) /\ IntVal(parts[1]) = 3
        ELSE FALSE

_should_convert_spec(d) ==
    LET version == IF Has(d, "openapi") THEN d.m["openapi"] ELSE Str("3.0.0")
    IN  IF IsStr(version)
        THEN LET parts == Split(Tokens(version.v), ".")
             IN  IF Len(parts) >= 2
                 THEN IF IntOk(parts[1]) /\ IntOk(parts[2])
                      THEN IntVal(parts[1]) = 3 /\ IntVal(parts[2]) >= 1
                      ELSE FALSE
                 ELSE FALSE
        ELSE FALSE

\* _transform_node of _make_transform_func(True)
op5_transform_node(data) ==
    IF ~IsDict(data) THEN data
    ELSE IF Get(data, "type") = Str("string") /\ Get(data, "format") = Str("byte")
    THEN Put(Del(data, "format"), "contentEncoding", Str("base64"))
    ELSE data

(***************************************************************************)
(* ops_base.py                                                             *)
(***************************************************************************)
TransformNode(op, data) ==
    CASE op = "remove_null_anyof" -> op1_transform_node(data)
      [] op = "convert_const_to_enum" -> op2_transform_node(data)
      [] op = "convert_float_to_number" -> op3_transform_node(data)
      [] op = "convert_nullable_to_3_1" -> op4_transform_node(data)
      [] op = "fix_byte_format" -> op5_transform_node(data)
      [] op = "clean_required_arrays" -> op6_transform_node(data)
      [] OTHER -> data

\* a walk that transforms the children of a node before the node itself
RECURSIVE recursive_walk_PostOrder(_, _)
recursive_walk_PostOrder(data0, op) ==
    LET walked ==
            IF IsDict(data0)
            THEN LET kids == [x \in DOMAIN data0.m |-> recursive_walk_PostOrder(data0.m[x], op)]
                 IN  IF \E x \in DOMAIN kids : kids[x] = Raised THEN Raised ELSE Map(kids)
            ELSE IF IsList(data0)
            THEN LET kids == [i \in 1..Len(data0.s) |->
                                 recursive_walk_PostOrder(data0.s[i], op)]
                 IN  IF \E i \in DOMAIN kids : kids[i] = Raised THEN Raised ELSE List(kids)
            ELSE data0
    IN  IF walked = Raised THEN Raised ELSE TransformNode(op, walked)

RECURSIVE recursive_walk(_, _)
recursive_walk(data0, op) ==
    LET data == TransformNode(op, data0)
    IN  IF data = Raised THEN Raised
        ELSE IF IsDict(data)
        THEN LET kids == [x \in DOMAIN data.m |-> recursive_walk(data.m[x], op)]
             IN  IF \E x \in DOMAIN kids : kids[x] = Raised THEN Raised ELSE Map(kids)
        ELSE IF IsList(data)
        THEN LET kids == [i \in 1..Len(data.s) |-> recursive_walk(data.s[i], op)]
             IN  IF \E i \in DOMAIN kids : kids[i] = Raised THEN Raised ELSE List(kids)
        ELSE data

remove_null_anyof(d) == recursive_walk(d, "remove_null_anyof")

convert_const_to_enum(d) == recursive_walk(d, "convert_const_to_enum")

convert_float_to_number(d) == recursive_walk(d, "convert_float_to_number")

convert_nullable_to_3_1(d) == recursive_walk(d, "convert_nullable_to_3_1")

\* with should_convert false the transform returns every node as it is
fix_byte_format(d) ==
    IF ~IsDict(d) THEN Raised
    ELSE IF _should_convert_spec(d) THEN recursive_walk(d, "fix_byte_format")
    ELSE recursive_walk(d, "skip")

clean_required_arrays(d) == recursive_walk(d, "clean_required_arrays")

(***************************************************************************)
(* op8_multipart_array_ref.py                                              *)
(*                                                                         *)
(* The code mutates the mapping a reference resolves to; here a mapping is *)
(* a value, so a resolved node is named by its path from the root and the  *)
(* mutation is an update of the root at that path.  Mappings are visited   *)
(* in the order KeySeq gives their keys.                                   *)
(***************************************************************************)
RECURSIVE SetToSeq(_)
SetToSeq(S) ==
    IF S = {} THEN <<>>
    ELSE LET x == CHOOSE y \in S : TRUE IN <<x>> \o SetToSeq(S \ {x})

KeySeq(d) == SetToSeq(DOMAIN d.m)

\* the node at a path of keys, Null when a key is missing or a non-mapping is indexed
RECURSIVE NodeAt(_, _)
NodeAt(node, path) ==
    IF path = <<>> THEN node
    ELSE IF ~IsDict(node) \/ ~Has(node, Head(path)) THEN Null
    ELSE NodeAt(node.m[Head(path)], Tail(path))

\* root with the node at path replaced by value (the path exists)
RECURSIVE UpdateAt(_, _, _)
UpdateAt(node, path, value) ==
    IF path = <<>> THEN value
    ELSE Put(node, Head(path), UpdateAt(node.m[Head(path)], Tail(path), value))

\* ref_string.startswith("#/")
IsLocalRef(ref_string) ==
    LET StartsWith(toks) == Len(toks) >= 2 /\ toks[1] = "#" /\ toks[2] = "/"
    IN  StartsWith(Tokens(ref_string))

\* ref_string.lstrip("#/").split("/") as keys
RefParts(ref_string) ==
    LET Keys(segs) == [i \in 1..Len(segs) |-> Join(segs[i])]
    IN  Keys(Split(LStrip(Tokens(ref_string), {"#", "/"}), "/"))

\* ref is the value of a "$ref" key; a value that is no string has no startswith
_resolve_ref(ref, root) ==
    IF ~IsStr(ref) THEN Raised
    ELSE IF ~IsLocalRef(ref.v) THEN Null
    ELSE LET node == NodeAt(root, RefParts(ref.v))
         IN  IF IsDict(node) THEN node ELSE Null

\* a reference met again counts as an array
RECURSIVE _is_array_schema_CycleIsArray(_, _, _)
_is_array_schema_CycleIsArray(schema, root, seen) ==
    IF Has(schema, "$ref")
    THEN LET ref == schema.m["$ref"]
         IN  IF ~IsStr(ref) THEN Raised
             ELSE IF ref.v \in seen THEN Bool(TRUE)
             ELSE LET resolved == _resolve_ref(ref, root)
                  IN  IF resolved = Null THEN Bool(FALSE)
                      ELSE _is_array_schema_CycleIsArray(resolved, root, seen \cup {ref.v})
    ELSE Bool(Get(schema, "type") = Str("array"))

\* Bool(TRUE), Bool(FALSE) or Raised
RECURSIVE _is_array_schema(_, _, _)
_is_array_schema(schema, root, seen) ==
    IF Has(schema, "$ref")
    THEN LET ref == schema.m["$ref"]
         IN  IF ~IsStr(ref) THEN Raised
             ELSE IF ref.v \in seen THEN Bool(FALSE)
             ELSE LET resolved == _resolve_ref(ref, root)
                  IN  IF resolved = Null THEN Bool(FALSE)
                      ELSE _is_array_schema(resolved, root, seen \cup {ref.v})
    ELSE Bool(Get(schema, "type") = Str("array"))

\* the while loop of _inline_array: the schema the chain ends at, Null to return unchanged
RECURSIVE InlineTarget(_, _, _)
InlineTarget(current, root, seen) ==
    IF Has(current, "$ref")
    THEN LET ref == current.m["$ref"]
         IN  IF ref.v \in seen THEN Null
             ELSE LET resolved == _resolve_ref(ref, root)
                  IN  IF resolved = Null THEN Null
                      ELSE InlineTarget(resolved, root, seen \cup {ref.v})
    ELSE current

\* the inline array without the description of the schema the chain ends at
_inline_array_NoDescription(prop_schema, root) ==
    LET Inline(current) ==
            IF current = Null THEN prop_schema
            ELSE LET items == IF Has(current, "items") THEN current.m["items"] ELSE EmptyMap
                     inlined == Map(("type" :> Str("array")) @@ ("items" :> items))
                 IN  inlined
    IN  Inline(InlineTarget(prop_schema, root, {}))

_inline_array(prop_schema, root) ==
    LET Inline(current) ==
            IF current = Null THEN prop_schema
            ELSE LET items == IF Has(current, "items") THEN current.m["items"] ELSE EmptyMap
                     inlined == Map(("type" :> Str("array")) @@ ("items" :> items))
                 IN  IF Has(current, "description")
                     THEN Put(inlined, "description", current.m["description"])
                     ELSE inlined
    IN  Inline(InlineTarget(prop_schema, root, {}))

\* the loop of _fix_multipart_schema_properties over the property names still to do;
\* loc is the path of the schema, root the whole document
RECURSIVE FixProperties(_, _, _)
FixProperties(root, loc, names) ==
    IF names = <<>> THEN root
    ELSE LET ploc == loc \o <<"properties", Head(names)>>
             prop_schema == NodeAt(root, ploc)
         IN  IF IsDict(prop_schema) /\ Has(prop_schema, "$ref")
             THEN LET isarr == _is_array_schema(prop_schema, root, {})
                  IN  IF isarr = Raised THEN Raised
                      ELSE IF isarr = Bool(TRUE)
                      THEN FixProperties(
                               UpdateAt(root, ploc, _inline_array(prop_schema, root)),
                               loc, Tail(names))
                      ELSE FixProperties(root, loc, Tail(names))
             ELSE FixProperties(root, loc, Tail(names))

_fix_multipart_schema_properties(root, loc) ==
    LET schema == NodeAt(root, loc)
        properties == IF Has(schema, "properties") THEN schema.m["properties"] ELSE EmptyMap
    IN  IF ~IsDict(properties) THEN root
        ELSE FixProperties(root, loc, KeySeq(properties))

\* "multipart" in content_type
ContainsMultipart(content_type) ==
    \E i \in 1..Len(Tokens(content_type)) : Tokens(content_type)[i] = "multipart"

\* one content entry: _resolve_schema_node and the call it guards
ProcessContentEntry(root, cloc, content_type) ==
    LET content_value == NodeAt(root, cloc \o <<content_type>>)
        raw_schema == Get(content_value, "schema")
        sloc == cloc \o <<content_type, "schema">>
    IN  IF ~ContainsMultipart(content_type) \/ ~IsDict(content_value) THEN root
        ELSE IF raw_schema = Null THEN root
        ELSE IF IsDict(raw_schema)
        THEN IF Has(raw_schema, "$ref")
             THEN LET resolved == _resolve_ref(raw_schema.m["$ref"], root)
                  IN  IF resolved = Raised THEN Raised
                      ELSE IF resolved = Null THEN root
                      ELSE _fix_multipart_schema_properties(
                               root, RefParts(raw_schema.m["$ref"].v))
             ELSE _fix_multipart_schema_properties(root, sloc)
        ELSE IF IsList(raw_schema)
        THEN IF Str("$ref") \in Elems(raw_schema) THEN Raised ELSE root
        ELSE IF IsStr(raw_schema)
        THEN IF \E i \in 1..Len(Tokens(raw_schema.v)) : Tokens(raw_schema.v)[i] = "$ref"
             THEN Raised ELSE root
        ELSE Raised  \* "$ref" in a boolean or a number

\* the loop of _process_content_map over the content types still to do
RECURSIVE ProcessContentMap(_, _, _)
ProcessContentMap(root, cloc, types) ==
    IF root = Raised \/ types = <<>> THEN root
    ELSE ProcessContentMap(ProcessContentEntry(root, cloc, Head(types)), cloc, Tail(types))

\* content = request_body.get("content", {}) for the request body at rbloc, and the call
ProcessBody(root, rbloc) ==
    LET request_body == NodeAt(root, rbloc)
        content == IF Has(request_body, "content") THEN request_body.m["content"] ELSE EmptyMap
    IN  IF IsDict(content)
        THEN ProcessContentMap(root, rbloc \o <<"content">>, KeySeq(content))
        ELSE root

Methods == <<"get", "put", "post", "delete", "options", "head", "patch", "trace">>

\* the body of the loop over the methods of one path item
ProcessOperation(root, path_key, method) ==
    LET path_item == root.m["paths"].m[path_key]
        operation == Get(path_item, method)
        request_body == IF Has(operation, "requestBody")
                        THEN operation.m["requestBody"] ELSE EmptyMap
        rbloc == <<"paths", path_key, method, "requestBody">>
    IN  IF ~IsDict(path_item) \/ ~IsDict(operation) THEN root
        ELSE IF ~IsDict(request_body) THEN Raised  \* "$ref" in it, or its get, raises
        ELSE IF ~Has(operation, "requestBody") THEN root
        ELSE IF Has(request_body, "$ref")
        THEN LET resolved == _resolve_ref(request_body.m["$ref"], root)
             IN  IF resolved = Raised THEN Raised
                 ELSE IF resolved = Null THEN root
                 ELSE ProcessBody(root, RefParts(request_body.m["$ref"].v))
        ELSE ProcessBody(root, rbloc)

\* todo: the (path key, method) pairs still to visit
RECURSIVE ProcessPaths(_, _)
ProcessPaths(root, todo) ==
    IF root = Raised \/ todo = <<>> THEN root
    ELSE ProcessPaths(ProcessOperation(root, Head(todo)[1], Head(todo)[2]), Tail(todo))

RECURSIVE PairUp(_)
PairUp(keys) ==
    IF keys = <<>> THEN <<>>
    ELSE [i \in 1..Len(Methods) |-> <<Head(keys), Methods[i]>>] \o PairUp(Tail(keys))

\* the loop over components.requestBodies
RECURSIVE ProcessBodies(_, _)
ProcessBodies(root, names) ==
    IF root = Raised \/ names = <<>> THEN root
    ELSE LET rbloc == <<"components", "requestBodies", Head(names)>>
         IN  ProcessBodies(
                 IF IsDict(NodeAt(root, rbloc)) THEN ProcessBody(root, rbloc) ELSE root,
                 Tail(names))

fix_multipart_array_refs(d) ==
    LET paths == IF Has(d, "paths") THEN d.m["paths"] ELSE EmptyMap
        components == IF Has(d, "components") THEN d.m["components"] ELSE EmptyMap
        bodies == IF Has(components, "requestBodies")
                  THEN components.m["requestBodies"] ELSE EmptyMap
        RequestBodies(after_paths) ==
            IF after_paths = Raised THEN Raised
            ELSE IF ~IsDict(components) \/ ~IsDict(bodies) THEN Raised
            ELSE ProcessBodies(after_paths, KeySeq(bodies))
    IN  IF ~IsDict(d) \/ ~IsDict(paths) THEN Raised
        ELSE RequestBodies(ProcessPaths(d, PairUp(KeySeq(paths))))

(***************************************************************************)
(* op7_header_schema_wrap.py                                               *)
(***************************************************************************)
_PURE_SCHEMA_KEYS ==
    {"type", "properties", "items", "enum", "format", "default", "minimum", "maximum",
     "exclusiveMinimum", "exclusiveMaximum", "minLength", "maxLength", "minItems",
     "maxItems", "pattern", "additionalProperties", "allOf", "anyOf", "oneOf", "not",
     "title", "readOnly", "writeOnly", "nullable", "discriminator", "xml", "externalDocs"}

_DUAL_KEYS == {"description", "example", "examples"}

\* the dual-purpose keys moved into schema instead of copied
WrapHeader_DualMoved(header) ==
    LET required_is_schema_list == IsList(Get(header, "required"))
        moved == {key \in DOMAIN header.m :
                     \/ key \in _PURE_SCHEMA_KEYS \cup _DUAL_KEYS
                     \/ key = "required" /\ required_is_schema_list}
    IN  IF ~IsDict(header) THEN header
        ELSE IF Has(header, "schema") \/ Has(header, "content") THEN header
        ELSE IF (_PURE_SCHEMA_KEYS \cap DOMAIN header.m) = {} /\ ~required_is_schema_list
        THEN header
        ELSE Map([key \in ((DOMAIN header.m) \ moved) \cup {"schema"} |->
                     IF key = "schema" THEN Map([x \in moved |-> header.m[x]])
                     ELSE header.m[key]])

\* the body of the loop over the headers, for one header
WrapHeader(header) ==
    LET required_is_schema_list == IsList(Get(header, "required"))
        moved == {key \in DOMAIN header.m :
                     \/ key \in _PURE_SCHEMA_KEYS
                     \/ key = "required" /\ required_is_schema_list}
        copied == {key \in DOMAIN header.m : key \notin moved /\ key \in _DUAL_KEYS}
        schema_obj == Map([key \in moved \cup copied |-> header.m[key]])
    IN  IF ~IsDict(header) THEN header
        ELSE IF Has(header, "schema") \/ Has(header, "content") THEN header
        ELSE IF (_PURE_SCHEMA_KEYS \cap DOMAIN header.m) = {} /\ ~required_is_schema_list
        THEN header
        ELSE Map([key \in ((DOMAIN header.m) \ moved) \cup {"schema"} |->
                     IF key = "schema" THEN schema_obj ELSE header.m[key]])

fix_header_schemas(d) ==
    IF ~IsDict(d) THEN d                                  \* TypeError, caught
    ELSE IF ~Has(d, "components") THEN d                  \* KeyError, caught
    ELSE IF ~IsDict(d.m["components"]) THEN d             \* TypeError, caught
    ELSE IF ~Has(d.m["components"], "headers") THEN d     \* KeyError, caught
    ELSE LET headers == d.m["components"].m["headers"]
         IN  IF ~IsDict(headers) THEN Raised              \* no items()
             ELSE LET kept == {name \in DOMAIN headers.m : headers.m[name] # Null}
                  IN  UpdateAt(d, <<"components", "headers">>,
                               Map([name \in kept |-> WrapHeader(headers.m[name])]))

(***************************************************************************)
(* op9_promote_schemas_from_headers.py                                     *)
(*                                                                         *)
(* json.dumps writes every key and every string value between quotes, a   *)
(* quote or a backslash of the string behind a backslash and a character   *)
(* outside ASCII as its \uXXXX escape; the pattern matches from the first   *)
(* "#/components/schemas/" of the written string up to the next quote: the *)
(* text between them is the name.                                          *)
(***************************************************************************)
SchemaRefPrefix == <<"#", "/", "components", "/", "schemas", "/">>

\* the names _SCHEMA_REF_RE finds in one string, as json.dumps writes it
RefNames(s) ==
    LET JsonEscapes == ("\"" :> <<"\\", "\"">>) @@ ("\\" :> <<"\\", "\\">>)
                       @@ ("é" :> <<"\\u00e9", "">>)
        toks == Tokens(s)
        Written(tok) == IF tok \in DOMAIN JsonEscapes THEN JsonEscapes[tok] ELSE <<tok, "">>
        NotEmpty(tok) == tok # ""
        raw == SelectSeq([i \in 1..(2 * Len(toks)) |->
                             IF i % 2 = 1 THEN Written(toks[(i + 1) \div 2])[1]
                             ELSE Written(toks[i \div 2])[2]],
                         NotEmpty)
        n == Len(SchemaRefPrefix)
        starts == {i \in 1..Len(raw) :
                      i + n <= Len(raw) /\ SubSeq(raw, i, i + n - 1) = SchemaRefPrefix}
    IN  IF starts = {} THEN {}
        ELSE LET first == CHOOSE i \in starts : \A j \in starts : i <= j
                 quotes == {j \in (first + n)..Len(raw) : raw[j] = "\""}
                 last == IF quotes = {} THEN Len(raw)
                         ELSE (CHOOSE j \in quotes : \A k \in quotes : j <= k) - 1
             IN  IF last < first + n THEN {}
                 ELSE {Join(SubSeq(raw, first + n, last))}

RECURSIVE _collect_schema_refs(_)
_collect_schema_refs(d) ==
    IF IsStr(d) THEN RefNames(d.v)
    ELSE IF IsList(d) THEN UNION {_collect_schema_refs(d.s[i]) : i \in 1..Len(d.s)}
    ELSE IF IsDict(d)
    THEN UNION {RefNames(key) \cup _collect_schema_refs(d.m[key]) : key \in DOMAIN d.m}
    ELSE {}

\* "name in schemas": Bool(TRUE), Bool(FALSE), or Raised for a value that is no
\* container; for a string the substring test, taken token by token
NameIn(name, schemas) ==
    IF IsDict(schemas) THEN Bool(Has(schemas, name))
    ELSE IF IsList(schemas) THEN Bool(Str(name) \in Elems(schemas))
    ELSE IF IsStr(schemas)
    THEN LET a == Tokens(name)
             b == Tokens(schemas.v)
         IN  Bool(\E i \in 1..(Len(b) + 1) :
                     i + Len(a) - 1 <= Len(b) /\ SubSeq(b, i, i + Len(a) - 1) = a)
    ELSE Raised

promote_misplaced_schemas(d) ==
    IF ~IsDict(d) THEN d                                  \* TypeError, caught
    ELSE IF ~Has(d, "components") THEN d                  \* KeyError, caught
    ELSE IF ~IsDict(d.m["components"]) THEN d             \* TypeError, caught
    ELSE IF ~Has(d.m["components"], "headers") THEN d     \* KeyError, caught
    ELSE LET headers == d.m["components"].m["headers"]
             with_schemas == IF Has(d.m["components"], "schemas") THEN d
                             ELSE Put(d, "components",
                                      Put(d.m["components"], "schemas", EmptyMap))
             schemas == with_schemas.m["components"].m["schemas"]
             referenced_schema_names == _collect_schema_refs(with_schemas)
         IN  IF ~IsDict(headers) THEN Raised              \* no keys()
             ELSE LET referenced == (DOMAIN headers.m) \cap referenced_schema_names
                      absent == {name \in referenced : NameIn(name, schemas) = Bool(FALSE)}
                      promoted == {name \in absent : IsDict(headers.m[name])}
                  IN  IF \E name \in referenced : NameIn(name, schemas) = Raised
                      THEN Raised
                      ELSE IF promoted = {} THEN with_schemas
                      ELSE IF ~IsDict(schemas) THEN Raised    \* no item assignment
                      ELSE LET moved == [name \in promoted |->
                                            IF Has(headers.m[name], "schema")
                                            THEN headers.m[name].m["schema"]
                                            ELSE headers.m[name]]
                               comps == with_schemas.m["components"]
                           IN  Put(with_schemas, "components",
                                   Put(Put(comps, "schemas",
                                           Map([name \in (DOMAIN schemas.m) \cup promoted |->
                                                   IF name \in promoted THEN moved[name]
                                                   ELSE schemas.m[name]])),
                                       "headers",
                                       Map([name \in (DOMAIN headers.m) \ promoted |->
                                               headers.m[name]])))

(***************************************************************************)
(* manager.py: the order in which transform_spec applies the transformers  *)
(***************************************************************************)
\* the order with the nullability transformer placed before the null-union one
Pipeline_NullableFirst ==
    <<"convert_nullable_to_3_1", "remove_null_anyof", "convert_const_to_enum",
      "convert_float_to_number", "fix_byte_format", "clean_required_arrays",
      "fix_multipart_array_refs">>

Pipeline ==
    <<"remove_null_anyof", "convert_const_to_enum", "convert_float_to_number",
      "convert_nullable_to_3_1", "fix_byte_format", "clean_required_arrays",
      "fix_multipart_array_refs">>

\* what a call of the named transformer returns
Apply(op, d) ==
    CASE op = "remove_null_anyof" -> remove_null_anyof(d)
      [] op = "convert_const_to_enum" -> convert_const_to_enum(d)
      [] op = "convert_float_to_number" -> convert_float_to_number(d)
      [] op = "convert_nullable_to_3_1" -> convert_nullable_to_3_1(d)
      [] op = "fix_byte_format" -> fix_byte_format(d)
      [] op = "clean_required_arrays" -> clean_required_arrays(d)
      [] op = "fix_multipart_array_refs" -> fix_multipart_array_refs(d)
      [] op = "fix_header_schemas" -> fix_header_schemas(d)
      [] op = "promote_misplaced_schemas" -> promote_misplaced_schemas(d)

(***************************************************************************)
(* Documents                                                               *)
(***************************************************************************)
MaxMembers == 3
MaxRequired == 2

SeqsUpTo(S, n) == UNION {[1..i -> S] : i \in 1..n}

TString == Map("type" :> Str("string"))
TInteger == Map("type" :> Str("integer"))
TNull == Map("type" :> Str("null"))
NullDesc == Map(("type" :> Str("null")) @@ ("description" :> Str("n")))

OtherKey(key) == IF key = "anyOf" THEN "oneOf" ELSE "anyOf"

\* the members of the unions of Op1Docs: all mappings
Op1Members ==
    {TString, TInteger, TNull, NullDesc,
     Map(("type" :> Str("string")) @@ ("default" :> Null)),
     Map(("type" :> Str("string")) @@ ("description" :> Str("m"))),
     Map("anyOf" :> List(<<TString, TNull>>)),
     Map("oneOf" :> List(<<TInteger, TNull>>))}

\* the keys a union node carries beside its union key
Op1Siblings(other) ==
    {<<>>,
     "default" :> Null,
     "default" :> Str("x"),
     ("default" :> Null) @@ ("description" :> Str("d")),
     other :> List(<<TInteger, TNull>>),
     other :> List(<<TNull>>),
     other :> List(<<TString, TInteger>>)}

Op1Node(key, members, sibs) == Map((key :> List(members)) @@ sibs)

\* a node as the schema of property p of an object schema
AsProperty(node) ==
    Map(("type" :> Str("object")) @@ ("properties" :> Map("p" :> node)))

(***************************************************************************)
(* The caller: it holds a document and calls the transformers of its plan  *)
(* one after the other, keeping what each call returns.                    *)
(***************************************************************************)
\* the next call of the plan is op, and no call has raised
NextCall(op) ==
    /\ spec # Raised
    /\ Len(hist) <= Len(plan)
    /\ plan[Len(hist)] = op

RemoveNullAnyof ==
    /\ NextCall("remove_null_anyof")
    /\ spec' = remove_null_anyof(spec)
    /\ hist' = Append(hist, spec')
    /\ UNCHANGED plan

ConvertConstToEnum ==
    /\ NextCall("convert_const_to_enum")
    /\ spec' = convert_const_to_enum(spec)
    /\ hist' = Append(hist, spec')
    /\ UNCHANGED plan

ConvertFloatToNumber ==
    /\ NextCall("convert_float_to_number")
    /\ spec' = convert_float_to_number(spec)
    /\ hist' = Append(hist, spec')
    /\ UNCHANGED plan

ConvertNullableTo31 ==
    /\ NextCall("convert_nullable_to_3_1")
    /\ spec' = convert_nullable_to_3_1(spec)
    /\ hist' = Append(hist, spec')
    /\ UNCHANGED plan

FixByteFormat ==
    /\ NextCall("fix_byte_format")
    /\ spec' = fix_byte_format(spec)
    /\ hist' = Append(hist, spec')
    /\ UNCHANGED plan

CleanRequiredArrays ==
    /\ NextCall("clean_required_arrays")
    /\ spec' = clean_required_arrays(spec)
    /\ hist' = Append(hist, spec')
    /\ UNCHANGED plan

FixMultipartArrayRefs ==
    /\ NextCall("fix_multipart_array_refs")
    /\ spec' = fix_multipart_array_refs(spec)
    /\ hist' = Append(hist, spec')
    /\ UNCHANGED plan

FixHeaderSchemas ==
    /\ NextCall("fix_header_schemas")
    /\ spec' = fix_header_schemas(spec)
    /\ hist' = Append(hist, spec')
    /\ UNCHANGED plan

PromoteMisplacedSchemas ==
    /\ NextCall("promote_misplaced_schemas")
    /\ spec' = promote_misplaced_schemas(spec)
    /\ hist' = Append(hist, spec')
    /\ UNCHANGED plan

Twice(op) == <<op, op>>

(***************************************************************************)
(* Spec: transform_spec called twice on a document with one object schema  *)
(* (components.schemas.Form), whose property x takes the constructs the    *)
(* transformers look for, and optionally a multipart upload of that schema *)
(***************************************************************************)
TFloat == Map("type" :> Str("float"))
TagsRef == Map("$ref" :> Str("#/components/schemas/Tags"))
FormRef == Map("$ref" :> Str("#/components/schemas/Form"))
TagsSchema == Map(("type" :> Str("array")) @@ ("items" :> TString))

\* the schemas of property x
PipeProps ==
    {TString, TFloat,
     Map("anyOf" :> List(<<TString, TNull>>)),
     Map(("anyOf" :> List(<<TString, TNull>>)) @@ ("default" :> Null)),
     Map("anyOf" :> List(<<TString, TInteger, TNull>>)),
     Map("anyOf" :> List(<<TNull>>)),
     Map("oneOf" :> List(<<Map("oneOf" :> List(<<TString, TNull>>)), TNull>>)),
     Map("type" :> List(<<Str("float"), Str("null")>>)),
     Map("type" :> List(<<Str("string"), Str("null")>>)),
     Map(("type" :> Str("string")) @@ ("nullable" :> Bool(TRUE))),
     Map(("type" :> Str("string")) @@ ("format" :> Str("byte"))),
     Map("const" :> Str("a")),
     Map(("type" :> Str("array")) @@ ("items" :> TFloat)),
     TagsRef}

\* the names a required array lists: a property and a name that is none
RequiredNames == {"x", "ghost"}

Versions == {"3.1.0", "3.0.3"}

UploadPaths ==
    Map("/upload" :> Map("post" :> Map("requestBody" :> Map("content" :>
        Map("multipart/form-data" :> Map("schema" :> FormRef))))))

FormSchema(x, required) ==
    Map(("type" :> Str("object"))
        @@ ("properties" :> Map(("x" :> x) @@ ("tags" :> TagsRef)))
        @@ (IF required = <<>> THEN <<>>
            ELSE "required" :> List([i \in 1..Len(required) |-> Str(required[i])])))

PipeDoc(x, required, version, upload) ==
    Map(("openapi" :> Str(version))
        @@ ("components" :> Map("schemas" :>
               Map(("Form" :> FormSchema(x, required)) @@ ("Tags" :> TagsSchema))))
        @@ (IF upload THEN "paths" :> UploadPaths ELSE <<>>))

Init ==
    /\ \E x \in PipeProps, required \in SeqsUpTo(RequiredNames, MaxRequired) \cup {<<>>},
          version \in Versions, upload \in BOOLEAN :
          spec = PipeDoc(x, required, version, upload)
    /\ hist = <<spec>>
    /\ plan = Pipeline \o Pipeline

Next ==
    \/ RemoveNullAnyof
    \/ ConvertConstToEnum
    \/ ConvertFloatToNumber
    \/ ConvertNullableTo31
    \/ FixByteFormat
    \/ CleanRequiredArrays
    \/ FixMultipartArrayRefs

Spec == Init /\ [][Next]_vars

(***************************************************************************)
(* Properties of transform_spec (Spec)                                     *)
(***************************************************************************)
\* C1: running the full ordered pipeline a second time on its own output is a
\* no-op: the document after the fourteenth call equals the one after the seventh.
C1_PipelineIdempotent == Len(hist) = 15 => hist[15] = hist[8]

\* the stages applied in the given order, a raised error ending the run
RECURSIVE RunStages(_, _)
RunStages(stages, d) ==
    IF stages = <<>> \/ d = Raised THEN d
    ELSE RunStages(Tail(stages), Apply(Head(stages), d))

FormOf(d) == d.m["components"].m["schemas"].m["Form"]

Requires(schema, name) ==
    Has(schema, "required") /\ IsList(schema.m["required"])
        /\ Str(name) \in Elems(schema.m["required"])

\* property x is required and is nullable by nothing but an anyOf null-union
OnlyAnyOfNullable(d) ==
    LET x == FormOf(d).m["properties"].m["x"]
    IN  /\ Requires(FormOf(d), "x")
        /\ HasNullItem(x, "anyOf")
        /\ ~Has(x, "nullable") /\ ~Has(x, "type") /\ ~Has(x, "oneOf")

\* C3: on every document in which a required property is nullable only by an
\* anyOf null-union, the full pipeline yields a different result than the same
\* stages run with the nullability transformer before the null-union transformer.
C3_OrderIsLoadBearing ==
    (Len(hist) >= 8 /\ OnlyAnyOfNullable(hist[1]))
        => hist[8] # RunStages(Pipeline_NullableFirst, hist[1])

\* C3 witness: the pipeline has run on such a document and x is still required,
\* while the other order drops x from required
C3_Witness ==
    /\ Len(hist) = 8
    /\ OnlyAnyOfNullable(hist[1])
    /\ Requires(FormOf(hist[8]), "x")
    /\ ~Requires(FormOf(RunStages(Pipeline_NullableFirst, hist[1])), "x")

(***************************************************************************)
(* SpecNullable: convert_nullable_to_3_1 called twice on a schema that     *)
(* stands at the root, as a property, as array items or as a union member  *)
(***************************************************************************)
TNullable == Map(("type" :> Str("string")) @@ ("nullable" :> Bool(TRUE)))
TStringOrNull == Map("type" :> List(<<Str("string"), Str("null")>>))

NullableNodes ==
    {TString, TNullable, TStringOrNull,
     Map("type" :> List(<<Str("string"), Str("integer"), Str("null")>>)),
     Map("anyOf" :> List(<<TString, TNull>>)),
     Map("anyOf" :> List(<<TString, TInteger, TNull>>)),
     Map("oneOf" :> List(<<TNull>>)),
     Map("anyOf" :> List(<<TNullable, TNull>>)),
     Map("anyOf" :> List(<<TStringOrNull, TNull>>)),
     Map("oneOf" :> List(<<Map("anyOf" :> List(<<TString, TNull>>)), TNull>>)),
     Map(("anyOf" :> List(<<TString, TNull>>)) @@ ("description" :> Str("d")))}

ObjectWith(x, required) ==
    Map(("type" :> Str("object")) @@ ("properties" :> Map("x" :> x))
        @@ (IF required = <<>> THEN <<>>
            ELSE "required" :> List([i \in 1..Len(required) |-> Str(required[i])])))

\* the documents in which node n stands in each position
NullableDocs(n) ==
    {n,
     Map(("type" :> Str("array")) @@ ("items" :> n)),
     Map("anyOf" :> List(<<n, TInteger>>)),
     ObjectWith(ObjectWith(n, <<"x">>), <<"x">>)}
    \cup {ObjectWith(n, required) :
             required \in SeqsUpTo(RequiredNames, MaxRequired) \cup {<<>>}}

InitNullable ==
    /\ \E n \in NullableNodes : spec \in NullableDocs(n)
    /\ hist = <<spec>>
    /\ plan = Twice("convert_nullable_to_3_1")

SpecNullable == InitNullable /\ [][ConvertNullableTo31]_vars

\* C5: convert_nullable_to_3_1 is idempotent: the second call returns what the
\* first returned, whatever the position of the schema in the document.
C5_NullableIdempotent == Len(hist) = 3 => hist[3] = hist[2]

(***************************************************************************)
(* SpecEach: each transformer called twice, and transform_spec once, on    *)
(* documents whose trigger keys carry values of unexpected shapes          *)
(***************************************************************************)
UploadWith(body) == Map("paths" :> Map("/upload" :> Map("post" :> Map("requestBody" :> body))))

MalformedDocs ==
    {Map("anyOf" :> List(<<Str("x"), TNull>>)),
     Map("anyOf" :> Str("x")),
     Map("anyOf" :> List(<<Null, TNull>>)),
     Map("oneOf" :> List(<<List(<<>>), TNull>>)),
     Map(("oneOf" :> List(<<List(<<>>), TNull>>)) @@ ("default" :> Null)),
     UploadWith(Null),
     Map("paths" :> Null),
     Map("paths" :> Map("/upload" :> Null)),
     Map("paths" :> Map("/upload" :> Map("post" :> Null))),
     Map("components" :> Null),
     Map("components" :> Map("headers" :> Null)),
     Map("components" :> Map("headers" :> Map(("H" :> Null) @@ ("G" :> Str("x"))))),
     Map("components" :> Map("requestBodies" :> Null)),
     Map("components" :> Map("requestBodies" :> Map("Upload" :> Null))),
     Map(("properties" :> Str("x")) @@ ("required" :> List(<<Str("x")>>))),
     Map(("properties" :> List(<<Str("x")>>)) @@ ("required" :> List(<<Str("x")>>))),
     Map(("properties" :> Map("x" :> Null)) @@ ("required" :> Null)),
     Map(("properties" :> Map("x" :> Map("nullable" :> Bool(TRUE)))) @@ ("required" :> Str("x"))),
     Map(("properties" :> Map("x" :> Map("nullable" :> Bool(TRUE))))
         @@ ("required" :> List(<<List(<<Str("x")>>)>>))),
     Map("openapi" :> Null),
     Map("openapi" :> Str("3.x.0")),
     Map(("openapi" :> Str("3.1.0")) @@ ("type" :> Str("string")) @@ ("format" :> Str("byte"))),
     Map("type" :> List(<<Null>>)),
     Map("const" :> Null),
     Map(("type" :> Str("float")) @@ ("format" :> Null)),
     PipeDoc(TString, <<"x">>, "3.1.0", TRUE)}

Transformers ==
    {"remove_null_anyof", "convert_const_to_enum", "convert_float_to_number",
     "convert_nullable_to_3_1", "fix_byte_format", "clean_required_arrays",
     "fix_multipart_array_refs", "fix_header_schemas"}

InitEach ==
    /\ spec \in MalformedDocs
    /\ hist = <<spec>>
    /\ plan \in {Twice(op) : op \in Transformers} \cup {Pipeline}

NextEach ==
    \/ RemoveNullAnyof
    \/ ConvertConstToEnum
    \/ ConvertFloatToNumber
    \/ ConvertNullableTo31
    \/ FixByteFormat
    \/ CleanRequiredArrays
    \/ FixMultipartArrayRefs
    \/ FixHeaderSchemas

SpecEach == InitEach /\ [][NextEach]_vars

\* C2: no transformer and no run of the pipeline ends in an error, whatever the
\* shape of the document: every call returns a tree.
C2_NeverRaises == spec # Raised

(***************************************************************************)
(* SpecIdem: each of the transformers that C6 names called twice, on the   *)
(* documents of Spec, on documents with components.headers, and on uploads *)
(* whose properties refer to parts of one another                          *)
(***************************************************************************)
NameRef == Map("$ref" :> Str("#/components/schemas/Name"))

HeaderValues ==
    {Null, Str("x"), TString,
     Map(("type" :> Str("string")) @@ ("description" :> Str("d"))),
     Map("schema" :> TString),
     Map(("schema" :> TString) @@ ("type" :> Str("string"))),
     Map(("required" :> List(<<Str("a")>>)) @@ ("style" :> Str("simple"))),
     Map(("required" :> Bool(TRUE)) @@ ("description" :> Str("d"))),
     Map(("items" :> NameRef) @@ ("example" :> Str("x"))),
     Map(("type" :> Str("string")) @@ ("required" :> Bool(TRUE)) @@ ("deprecated" :> Bool(TRUE))
         @@ ("description" :> Str("d")) @@ ("examples" :> Map("a" :> Str("x")))),
     Map(("properties" :> Map("x" :> TString)) @@ ("required" :> List(<<Str("x")>>))
         @@ ("explode" :> Bool(FALSE)) @@ ("x-note" :> Str("n"))),
     Map(("content" :> EmptyMap) @@ ("type" :> Str("string")))}

\* a document with the header under the given name; components.schemas is
\* absent, holds another name only ("other"), or holds the header's name too
\* ("same")
HeaderDoc(name, header, referenced, schemas) ==
    Map(("components" :>
            Map(("headers" :> Map((name :> header) @@ ("H" :> Null)))
                @@ (IF schemas = "other" THEN "schemas" :> Map("Tags" :> TagsSchema)
                    ELSE IF schemas = "same"
                    THEN "schemas" :> Map(("Tags" :> TagsSchema) @@ (name :> TInteger))
                    ELSE <<>>)))
        @@ (IF referenced
            THEN "paths" :> Map("/upload" :> Map("get" :> Map("x" :>
                     Map("$ref" :> Str(Join(SchemaRefPrefix \o Tokens(name)))))))
            ELSE <<>>))

\* an upload in which property inner refers to the items of property outer, and
\* outer is a reference to an array of arrays
NestedRefDoc(inner, outer) ==
    LET to_items == IF outer = "tags"
                    THEN "#/components/schemas/Form/properties/tags/items"
                    ELSE "#/components/schemas/Form/properties/x/items"
        form == Map(("type" :> Str("object"))
                    @@ ("properties" :>
                           Map((inner :> Map("$ref" :> Str(to_items))) @@ (outer :> TagsRef))))
        tags == Map(("type" :> Str("array")) @@ ("items" :> TagsSchema))
    IN  Map(("components" :> Map("schemas" :> Map(("Form" :> form) @@ ("Tags" :> tags))))
            @@ ("paths" :> UploadPaths))

IdemDocs ==
    {PipeDoc(x, required, version, upload) :
        x \in PipeProps, required \in SeqsUpTo(RequiredNames, MaxRequired) \cup {<<>>},
        version \in Versions, upload \in BOOLEAN}
    \cup {HeaderDoc(name, header, referenced, schemas) :
             name \in {"Name", "Née"}, header \in HeaderValues, referenced \in BOOLEAN,
             schemas \in {"absent", "other", "same"}}
    \cup {NestedRefDoc("x", "tags"), NestedRefDoc("tags", "x")}

IdemTransformers ==
    {"convert_const_to_enum", "convert_float_to_number", "fix_byte_format",
     "clean_required_arrays", "fix_multipart_array_refs", "fix_header_schemas",
     "promote_misplaced_schemas"}

InitIdem ==
    /\ spec \in IdemDocs
    /\ hist = <<spec>>
    /\ plan \in {Twice(op) : op \in IdemTransformers}

NextIdem ==
    \/ ConvertConstToEnum
    \/ ConvertFloatToNumber
    \/ FixByteFormat
    \/ CleanRequiredArrays
    \/ FixMultipartArrayRefs
    \/ FixHeaderSchemas
    \/ PromoteMisplacedSchemas

SpecIdem == InitIdem /\ [][NextIdem]_vars

\* C6: each of convert_const_to_enum, convert_float_to_number, fix_byte_format,
\* clean_required_arrays, fix_multipart_array_refs, fix_header_schemas and
\* promote_misplaced_schemas is idempotent: the second call returns what the
\* first returned.
C6_EachIdempotent == Len(hist) = 3 => hist[3] = hist[2]

(***************************************************************************)
(* SpecOp1: remove_null_anyof called twice on a union node, at the root or *)
(* as a property schema                                                    *)
(***************************************************************************)
InitOp1 ==
    /\ \E key \in {"anyOf", "oneOf"}, members \in SeqsUpTo(Op1Members, MaxMembers),
          wrapped \in BOOLEAN :
          \E sibs \in Op1Siblings(OtherKey(key)) :
             spec = IF wrapped THEN AsProperty(Op1Node(key, members, sibs))
                    ELSE Op1Node(key, members, sibs)
    /\ hist = <<spec>>
    /\ plan = Twice("remove_null_anyof")

SpecOp1 == InitOp1 /\ [][RemoveNullAnyof]_vars

(***************************************************************************)
(* Properties of remove_null_anyof (SpecOp1)                               *)
(***************************************************************************)
\* the union node of a document of Op1Docs, and what stands in its place later
Focus(d) == IF IsDict(d) /\ Has(d, "properties") THEN d.m["properties"].m["p"] ELSE d

UnionKeys == {"anyOf", "oneOf"}

\* the node carries key with a sequence of mappings
UnionAt(n, key) ==
    /\ IsDict(n) /\ Has(n, key) /\ IsList(n.m[key])
    /\ \A i \in 1..Len(n.m[key].s) : IsDict(n.m[key].s[i])

\* a mapping whose type is "null", with or without further keys
TypeIsNull(m) == IsDict(m) /\ Has(m, "type") /\ m.m["type"] = Str("null")
TypeNotNull(m) == ~TypeIsNull(m)
\* the mapping {type: "null"} and nothing else
ExactlyNull(m) == m = TNull
NotExactlyNull(m) == m # TNull

HoldsNullTyped(n, key) ==
    /\ IsDict(n) /\ Has(n, key) /\ IsList(n.m[key])
    /\ \E i \in 1..Len(n.m[key].s) : TypeIsNull(n.m[key].s[i])

\* M's keys plus the sibling keys M lacks, M's values winning, a null default
\* dropped, every value processed by the walk in its turn
MergeExpected(n, key, M) ==
    LET keys == (DOMAIN M.m) \cup ((DOMAIN n.m) \ {key})
        merged == [x \in keys |-> IF x \in DOMAIN M.m THEN M.m[x] ELSE n.m[x]]
        kept == IF "default" \in keys /\ merged["default"] = Null
                THEN keys \ {"default"} ELSE keys
    IN  Map([x \in kept |-> remove_null_anyof(merged[x])])

WalkedMembers(members) == List([i \in 1..Len(members) |-> remove_null_anyof(members[i])])

\* C4: remove_null_anyof is idempotent on documents whose union members are
\* mappings: the second call returns what the first returned.
C4_Idempotent == Len(hist) = 3 => hist[3] = hist[2]

\* C7 as stated: a union with at least one {type: "null"} member and exactly one
\* other member M is replaced by M's keys plus the sibling keys M lacks, a null
\* default removed.
C7_UnwrapAsStated ==
    Len(hist) >= 2 =>
        \A key \in UnionKeys :
            LET n == Focus(hist[1])
                others == SelectSeq(n.m[key].s, NotExactlyNull)
            IN  (/\ UnionAt(n, key)
                 /\ Len(others) = 1 /\ Len(n.m[key].s) > 1)
                => Focus(hist[2]) = MergeExpected(n, key, others[1])

\* C7 amended: a union with at least one member of type "null" and exactly one
\* other member M is replaced by M's keys plus the sibling keys M lacks, M's values
\* winning and a null default removed, provided no second null-union is processed
\* on the same node: the node's other union key, and for an anyOf node also a
\* oneOf key of M, holds no member of type "null".
C7_UnwrapMerges ==
    Len(hist) >= 2 =>
        \A key \in UnionKeys :
            LET n == Focus(hist[1])
                others == SelectSeq(n.m[key].s, TypeNotNull)
            IN  (/\ UnionAt(n, key)
                 /\ Len(others) = 1 /\ Len(n.m[key].s) > 1
                 /\ ~HoldsNullTyped(n, OtherKey(key))
                 /\ key = "anyOf" => ~HoldsNullTyped(others[1], "oneOf"))
                => Focus(hist[2]) = MergeExpected(n, key, others[1])

\* C7 witness: an unwrapped union whose member and node both carry a description
\* and whose node carries default: null
C7_Witness ==
    /\ Len(hist) = 2
    /\ LET n == Focus(hist[1])
       IN  /\ UnionAt(n, "anyOf")
           /\ Len(SelectSeq(n.m["anyOf"].s, TypeNotNull)) = 1
           /\ Len(n.m["anyOf"].s) = 2
           /\ ~Has(n, "oneOf")
           /\ Has(n, "description") /\ Has(n, "default")
           /\ \E i \in 1..2 : Has(n.m["anyOf"].s[i], "description") /\ TypeNotNull(n.m["anyOf"].s[i])
    /\ Focus(hist[2]).m["description"] = Str("m")

\* what C8 says of the union key and of default, for the members kept
KeepsUnion(n, o, key, kept) ==
    /\ IsDict(o) /\ Has(o, key)
    /\ o.m[key] = WalkedMembers(kept)
    /\ (Has(n, "default") /\ n.m["default"] = Null) => ~Has(o, "default")
    /\ (Has(n, "default") /\ n.m["default"] # Null)
          => (Has(o, "default") /\ o.m["default"] = n.m["default"])

RECURSIVE HoldsNullUnion(_)
HoldsNullUnion(d) ==
    IF IsDict(d)
    THEN \/ \E key \in UnionKeys :
               Has(d, key) /\ IsList(d.m[key]) /\ TNull \in Elems(d.m[key])
         \/ \E x \in DOMAIN d.m : HoldsNullUnion(d.m[x])
    ELSE IF IsList(d) THEN \E i \in 1..Len(d.s) : HoldsNullUnion(d.s[i])
    ELSE FALSE

\* C9: after one call of remove_null_anyof no anyOf or oneOf sequence anywhere
\* in the result contains a {type: "null"} member.
C9_NoNullMemberLeft == Len(hist) >= 2 => ~HoldsNullUnion(hist[2])

\* C10 as stated: only the members that are exactly {type: "null"} are removed:
\* every other member, a mapping of type "null" with further keys included,
\* stays in the sequence (checked where the union key stays and the node's other
\* union key holds no member of type "null").
C10_OnlyExactNullRemoved ==
    Len(hist) >= 2 =>
        \A key \in UnionKeys :
            LET n == Focus(hist[1])
                kept == SelectSeq(n.m[key].s, NotExactlyNull)
            IN  (/\ UnionAt(n, key)
                 /\ ~HoldsNullTyped(n, OtherKey(key))
                 /\ Len(kept) >= 2)
                => (Has(Focus(hist[2]), key) /\ Focus(hist[2]).m[key] = WalkedMembers(kept))

\* C10 amended: the members removed from an anyOf/oneOf sequence are the mappings
\* whose type is "null", with or without further keys; every other member stays
\* in its original order (where the union key stays: two or more members are
\* left or none was removed, and the node's other union key holds no member of
\* type "null").
C10_NullTypedRemoved ==
    Len(hist) >= 2 =>
        \A key \in UnionKeys :
            LET n == Focus(hist[1])
                kept == SelectSeq(n.m[key].s, TypeNotNull)
            IN  (/\ UnionAt(n, key)
                 /\ ~HoldsNullTyped(n, OtherKey(key))
                 /\ Len(kept) >= 2 \/ Len(kept) = Len(n.m[key].s))
                => (Has(Focus(hist[2]), key) /\ Focus(hist[2]).m[key] = WalkedMembers(kept))

\* C10 witness: a member of type "null" with a description was removed and two
\* members are left in their order
C10_Witness ==
    /\ Len(hist) = 2
    /\ LET n == Focus(hist[1])
       IN  /\ UnionAt(n, "oneOf")
           /\ NullDesc \in Elems(n.m["oneOf"])
           /\ Len(SelectSeq(n.m["oneOf"].s, TypeNotNull)) = 2
           /\ Has(Focus(hist[2]), "oneOf")
           /\ Len(Focus(hist[2]).m["oneOf"].s) = 2

(***************************************************************************)
(* SpecConst: convert_const_to_enum called twice on a node carrying const, *)
(* at the root, as a property schema or as a member of allOf               *)
(***************************************************************************)
ConstValues ==
    {Null, Str("a"), Bool(TRUE), List(<<Str("a")>>), Map("x" :> Str("a")),
     Map("const" :> Str("a")), List(<<Map("const" :> Null)>>)}

ConstSiblings ==
    {<<>>, "type" :> Str("string"), "enum" :> List(<<Str("b")>>),
     "description" :> Str("d"), "items" :> Map("const" :> Str("b")),
     ("type" :> Str("string")) @@ ("enum" :> List(<<Str("a"), Str("b")>>))}

ConstNode(value, sibs) == Map(("const" :> value) @@ sibs)

AsMember(schema) == Map("allOf" :> List(<<schema>>))

InitConst ==
    /\ \E value \in ConstValues, sibs \in ConstSiblings, place \in {"root", "property", "member"} :
          spec = CASE place = "root" -> ConstNode(value, sibs)
                   [] place = "property" -> AsProperty(ConstNode(value, sibs))
                   [] OTHER -> AsMember(ConstNode(value, sibs))
    /\ hist = <<spec>>
    /\ plan = Twice("convert_const_to_enum")

SpecConst == InitConst /\ [][ConvertConstToEnum]_vars

(***************************************************************************)
(* Properties of convert_const_to_enum (SpecConst)                         *)
(***************************************************************************)
\* the node that carried const in a document of InitConst, and what stands in
\* its place later
ConstFocus(d) ==
    IF Has(d, "properties") THEN d.m["properties"].m["p"]
    ELSE IF Has(d, "allOf") THEN d.m["allOf"].s[1]
    ELSE d

\* C11: after convert_const_to_enum the mapping that carried const has no const,
\* its enum is the one-element sequence holding the original const value, and
\* every other key is there as before (its value processed by the walk in its
\* turn), with no key added.
C11_ConstBecomesEnum ==
    Len(hist) >= 2 =>
        LET n == ConstFocus(hist[1])
            o == ConstFocus(hist[2])
        IN  /\ IsDict(o)
            /\ DOMAIN o.m = ((DOMAIN n.m) \ {"const"}) \cup {"enum"}
            /\ o.m["enum"] = List(<<n.m["const"]>>)
            /\ \A x \in (DOMAIN n.m) \ {"const", "enum"} :
                  o.m[x] = convert_const_to_enum(n.m[x])

(***************************************************************************)
(* SpecRequired: convert_nullable_to_3_1 called twice on an object schema  *)
(* with properties x and y and a required sequence, at the root or as a    *)
(* property schema                                                         *)
(***************************************************************************)
TNotNullable == Map(("type" :> Str("string")) @@ ("nullable" :> Bool(FALSE)))

PropNodes ==
    {TString, TNullable, TNotNullable, TStringOrNull,
     Map("type" :> List(<<Str("string"), Str("integer"), Str("null")>>)),
     Map(("type" :> List(<<Str("string")>>)) @@ ("anyOf" :> List(<<TString, TNull>>))),
     Map("anyOf" :> List(<<TString, TNull>>)),
     Map("oneOf" :> List(<<TString, TInteger, TNull>>)),
     Map("anyOf" :> List(<<TString, NullDesc>>)),
     Map("oneOf" :> List(<<Map("anyOf" :> List(<<TNullable, TNull>>)), TNull>>)),
     Map("anyOf" :> List(<<Map("oneOf" :> List(<<TNullable, TNull>>)), TNull>>))}

RequiredNamesXY == {"x", "y", "ghost"}

ObjectXY(x, y, required) ==
    Map(("type" :> Str("object")) @@ ("properties" :> Map(("x" :> x) @@ ("y" :> y)))
        @@ (IF required = <<>> THEN <<>>
            ELSE "required" :> List([i \in 1..Len(required) |-> Str(required[i])])))

InitRequired ==
    /\ \E x \in PropNodes, y \in {TString, TInteger, TNullable},
          required \in SeqsUpTo(RequiredNamesXY, MaxRequired) \cup {<<>>},
          wrapped \in BOOLEAN :
          spec = IF wrapped THEN AsProperty(ObjectXY(x, y, required))
                 ELSE ObjectXY(x, y, required)
    /\ hist = <<spec>>
    /\ plan = Twice("convert_nullable_to_3_1")

SpecRequired == InitRequired /\ [][ConvertNullableTo31]_vars

(***************************************************************************)
(* Properties of convert_nullable_to_3_1 (SpecRequired)                    *)
(***************************************************************************)
\* the object schema of a document of InitRequired, and what stands in its
\* place later
ObjectFocus(d) == IF Has(d.m["properties"], "p") THEN d.m["properties"].m["p"] ELSE d

\* the required sequence of a node, empty when the key is absent
RequiredOf(n) == IF Has(n, "required") THEN n.m["required"].s ELSE <<>>

InSeq(x, s) == \E i \in 1..Len(s) : s[i] = x

\* nullable as C12 defines it: nullable: true, a type sequence containing
\* "null", or an anyOf/oneOf with a {type: "null"} member
NullableAsStated(schema) ==
    /\ IsDict(schema)
    /\ \/ Get(schema, "nullable") = Bool(TRUE)
       \/ IsList(Get(schema, "type")) /\ Str("null") \in Elems(schema.m["type"])
       \/ \E key \in UnionKeys :
             Has(schema, key) /\ IsList(schema.m[key]) /\ TNull \in Elems(schema.m[key])

\* C12: convert_nullable_to_3_1 drops from required every name whose property
\* schema is nullable (nullable: true, a type sequence containing "null", or an
\* anyOf/oneOf with a {type: "null"} member), and removes the required key when
\* no name is left.
C12_NullableDropped ==
    Len(hist) >= 2 =>
        LET n == ObjectFocus(hist[1])
            o == ObjectFocus(hist[2])
            properties == n.m["properties"]
        IN  /\ \A i \in 1..Len(RequiredOf(n)) :
                  LET name == RequiredOf(n)[i]
                  IN  (IsKeyOf(name, properties) /\ NullableAsStated(properties.m[name.v]))
                      => ~InSeq(name, RequiredOf(o))
            /\ Has(o, "required") => Len(o.m["required"].s) > 0

\* a name of required that the pass judges nullable: a key of properties whose
\* schema _is_nullable_property accepts
JudgedNullable(n, name) ==
    /\ IsKeyOf(name, n.m["properties"])
    /\ _is_nullable_property(n.m["properties"].m[name.v])

\* C13: convert_nullable_to_3_1 removes from required only the names it judges
\* nullable: every other name that was in required is still there afterwards,
\* in its original relative order.
C13_OthersStayRequired ==
    Len(hist) >= 2 =>
        LET n == ObjectFocus(hist[1])
            o == ObjectFocus(hist[2])
            NotJudged(name) == ~JudgedNullable(n, name)
        IN  RequiredOf(o) = SelectSeq(RequiredOf(n), NotJudged)

\* a property schema somewhere in the tree carries a nullable key or an
\* anyOf/oneOf sequence with a {type: "null"} member
CarriesNullMarker(schema) ==
    /\ IsDict(schema)
    /\ \/ Has(schema, "nullable")
       \/ \E key \in UnionKeys :
             Has(schema, key) /\ IsList(schema.m[key]) /\ TNull \in Elems(schema.m[key])

RECURSIVE PropertyResidue(_)
PropertyResidue(d) ==
    IF IsDict(d)
    THEN \/ /\ Has(d, "properties") /\ IsDict(d.m["properties"])
            /\ \E name \in DOMAIN d.m["properties"].m :
                  CarriesNullMarker(d.m["properties"].m[name])
         \/ \E x \in DOMAIN d.m : PropertyResidue(d.m[x])
    ELSE IF IsList(d) THEN \E i \in 1..Len(d.s) : PropertyResidue(d.s[i])
    ELSE FALSE

\* a type sequence holding "null" and exactly one other type, and that type
NullAndOne(schema) ==
    /\ IsDict(schema) /\ IsList(Get(schema, "type"))
    /\ Len(schema.m["type"].s) = 2
    /\ Str("null") \in Elems(schema.m["type"])
    /\ Elems(schema.m["type"]) # {Str("null")}

TheOther(schema) == CHOOSE t \in Elems(schema.m["type"]) : t # Str("null")

\* C14: after convert_nullable_to_3_1 no property schema carries a nullable key
\* or an anyOf/oneOf sequence with a {type: "null"} member, and a property's type
\* sequence that held "null" and exactly one other type has become that type.
C14_NoNullResidue ==
    Len(hist) >= 2 =>
        /\ ~PropertyResidue(hist[2])
        /\ \A name \in {"x", "y"} :
              LET before == ObjectFocus(hist[1]).m["properties"].m[name]
                  after == ObjectFocus(hist[2]).m["properties"].m[name]
              IN  NullAndOne(before) => Get(after, "type") = TheOther(before)

(***************************************************************************)
(* SpecByte: fix_byte_format called twice on a document with or without an *)
(* openapi value and one schema, at the root, under components.schemas or  *)
(* as array items                                                          *)
(***************************************************************************)
\* stands for "the document has no openapi key"
NoVersion == [k |-> "absent"]

VersionStrings ==
    {"", "3.1.0", "3.0.0", "3.0.3", "3.1", "3.2.0", "3", "4.0.0", "2.0", "3.x.0", "x.1.0",
     " 3.1.0", "3. 1.0", "+3.1.0", "3.-1.0"}

VersionValues ==
    {Str(v) : v \in VersionStrings}
    \cup {NoVersion, Null, Bool(TRUE), List(<<Str("3.1.0")>>), Map("major" :> Str("3"))}

TByte == Map(("type" :> Str("string")) @@ ("format" :> Str("byte")))

ByteNodes ==
    {TByte,
     Map(("type" :> Str("string")) @@ ("format" :> Str("byte")) @@ ("description" :> Str("d"))),
     Map(("type" :> Str("string")) @@ ("format" :> Str("byte"))
         @@ ("contentEncoding" :> Str("base16"))),
     Map(("type" :> Str("string")) @@ ("format" :> Str("date"))),
     Map(("type" :> Str("integer")) @@ ("format" :> Str("byte"))),
     Map(("type" :> List(<<Str("string")>>)) @@ ("format" :> Str("byte"))),
     Map("format" :> Str("byte")),
     TString}

BytePlaces == {"root", "schema", "items"}

ByteDoc(version, node, place) ==
    LET head == IF version = NoVersion THEN <<>> ELSE "openapi" :> version
        body == CASE place = "root" -> node.m
                  [] place = "schema" -> "components" :> Map("schemas" :> Map("B" :> node))
                  [] OTHER -> "components" :>
                                 Map("schemas" :>
                                        Map("B" :> Map(("type" :> Str("array"))
                                                       @@ ("items" :> node))))
    IN  Map(head @@ body)

InitByte ==
    /\ \E version \in VersionValues, node \in ByteNodes, place \in BytePlaces :
          spec = ByteDoc(version, node, place)
    /\ hist = <<spec>>
    /\ plan = Twice("fix_byte_format")

SpecByte == InitByte /\ [][FixByteFormat]_vars

(***************************************************************************)
(* Properties of fix_byte_format (SpecByte)                                *)
(***************************************************************************)
\* the version strings of VersionStrings whose first two dot-separated parts
\* parse as the integers 3 and 1 or more
ParseAs31Plus == {"3.1.0", "3.1", "3.2.0", " 3.1.0", "3. 1.0", "+3.1.0"}

IsByteString(node) ==
    /\ Has(node, "type") /\ node.m["type"] = Str("string")
    /\ Has(node, "format") /\ node.m["format"] = Str("byte")

Base64Encoded(node) ==
    Map([x \in ((DOMAIN node.m) \ {"format"}) \cup {"contentEncoding"} |->
            IF x = "contentEncoding" THEN Str("base64") ELSE node.m[x]])

RequiredEntries == {Str("x"), Str("y"), Str("ghost"), Null}

\* an object schema whose own required names a property it lacks
InnerObject ==
    Map(("type" :> Str("object")) @@ ("properties" :> Map("z" :> TString))
        @@ ("required" :> List(<<Str("ghost"), Str("z")>>)))

WithProperties(x, required) ==
    Map(("type" :> Str("object")) @@ ("properties" :> Map(("x" :> x) @@ ("y" :> TString)))
        @@ ("required" :> List(required)))

\* the values of a required key: sequences of names, and the values a parameter
\* or a request body gives it
RequiredValues ==
    {List(required) : required \in SeqsUpTo(RequiredEntries, MaxRequired) \cup {<<>>}}
    \cup {Bool(TRUE), Bool(FALSE), Null, Str("x"), Map("x" :> TString)}

NoPropertiesSiblings ==
    {<<>>, "type" :> Str("object"),
     ("name" :> Str("x")) @@ ("in" :> Str("query")) @@ ("schema" :> TString)}

WithoutProperties(value, sibs) == Map(("required" :> value) @@ sibs)

CleanNodes ==
    {WithProperties(x, required) :
        x \in {TString, InnerObject}, required \in SeqsUpTo(RequiredEntries, MaxRequired) \cup {<<>>}}
    \cup {WithoutProperties(value, sibs) : value \in RequiredValues, sibs \in NoPropertiesSiblings}

InitClean ==
    /\ \E node \in CleanNodes, place \in {"root", "property", "member"} :
          spec = CASE place = "root" -> node
                   [] place = "property" -> AsProperty(node)
                   [] OTHER -> AsMember(node)
    /\ hist = <<spec>>
    /\ plan = Twice("clean_required_arrays")

SpecClean == InitClean /\ [][CleanRequiredArrays]_vars

(***************************************************************************)
(* Properties of clean_required_arrays (SpecClean)                         *)
(***************************************************************************)
\* the node of CleanNodes in a document of InitClean, and what stands in its
\* place later
CleanFocus(d) ==
    IF Has(d, "properties") /\ Has(d.m["properties"], "p") THEN d.m["properties"].m["p"]
    ELSE IF Has(d, "allOf") THEN d.m["allOf"].s[1]
    ELSE d

\* C16: for a node with a properties mapping and a required sequence,
\* clean_required_arrays sets required to the subsequence of its names that are
\* keys of properties, in their original order, and removes the key when that
\* subsequence is empty.
C16_RequiredFiltered ==
    Len(hist) >= 2 =>
        LET n == CleanFocus(hist[1])
            o == CleanFocus(hist[2])
        IN  (Has(n, "properties") /\ IsDict(n.m["properties"])
             /\ Has(n, "required") /\ IsList(n.m["required"]))
            => LET IsProperty(name) == name \in {Str(x) : x \in DOMAIN n.m["properties"].m}
                   names == SelectSeq(n.m["required"].s, IsProperty)
               IN  /\ IsDict(o)
                   /\ names # <<>> => (Has(o, "required") /\ o.m["required"] = List(names))
                   /\ names = <<>> => ~Has(o, "required")

\* C16 witness: required named y, ghost and x in that order, and is left with y
\* and x in that order
C16_Witness ==
    /\ Len(hist) = 2
    /\ Has(CleanFocus(hist[1]), "properties")
    /\ \E i, j \in 1..Len(RequiredOf(CleanFocus(hist[1]))) :
          /\ i < j
          /\ RequiredOf(CleanFocus(hist[1]))[i] = Str("y")
          /\ RequiredOf(CleanFocus(hist[1]))[j] = Str("x")
    /\ RequiredOf(CleanFocus(hist[2])) = <<Str("y"), Str("x")>>

\* C17 as stated: a node with a required key and no properties key has no
\* required key afterwards, whatever the value of required.
C17_RemovedUnconditionally ==
    Len(hist) >= 2 =>
        LET n == CleanFocus(hist[1])
            o == CleanFocus(hist[2])
        IN  (Has(n, "required") /\ ~Has(n, "properties")) => ~Has(o, "required")

\* C17 amended: a node with a required key and no properties key loses the
\* required key when its value is a sequence; a required value of any other type
\* (the boolean of a parameter or request body, for one) is left as it is.
C17_SequenceRemoved ==
    Len(hist) >= 2 =>
        LET n == CleanFocus(hist[1])
            o == CleanFocus(hist[2])
        IN  (Has(n, "required") /\ ~Has(n, "properties"))
            => IF IsList(n.m["required"]) THEN o = Del(n, "required") ELSE o = n

\* C17 witness: a sequence of two names beside type and no properties was removed
C17_Witness ==
    /\ Len(hist) = 2
    /\ LET n == CleanFocus(hist[1])
       IN  /\ Has(n, "required") /\ ~Has(n, "properties") /\ Has(n, "type")
           /\ IsList(n.m["required"]) /\ Len(n.m["required"].s) = 2
    /\ ~Has(CleanFocus(hist[2]), "required")

(***************************************************************************)
(* SpecMultipart: fix_multipart_array_refs called twice on a document with *)
(* one request body, reached inline, through a requestBody $ref or only    *)
(* under components.requestBodies, whose content entries carry the form    *)
(* schema inline or as a $ref to components.schemas.Form                   *)
(***************************************************************************)
RefTo(target) == Map("$ref" :> Str(target))

\* the values of the form's property tags
TagsProps ==
    {TagsRef,
     RefTo("#/components/schemas/TagsAlias"),
     Map(("$ref" :> Str("#/components/schemas/Tags")) @@ ("description" :> Str("own"))),
     RefTo("#/components/schemas/Loop"),
     RefTo("#/components/schemas/Missing"),
     RefTo("#/components/schemas/Name"),
     RefTo("other.yaml#/components/schemas/Tags"),
     TagsSchema,
     TString}

ContentKinds == {"multipart", "json", "both"}
BodyRoutes == {"inline", "ref", "components"}

UploadForm(prop) ==
    Map(("type" :> Str("object"))
        @@ ("properties" :> Map(("tags" :> prop) @@ ("name" :> TString))))

MultipartDoc(prop, by_ref, kinds, route, described) ==
    LET schema == IF by_ref THEN FormRef ELSE UploadForm(prop)
        content == Map((IF kinds \in {"multipart", "both"}
                        THEN "multipart/form-data" :> Map("schema" :> schema) ELSE <<>>)
                       @@ (IF kinds \in {"json", "both"}
                           THEN "application/json" :> Map("schema" :> schema) ELSE <<>>))
        body == Map(("required" :> Bool(TRUE)) @@ ("content" :> content))
        tags == IF described THEN Put(TagsSchema, "description", Str("d")) ELSE TagsSchema
        schemas == Map(("Tags" :> tags) @@ ("TagsAlias" :> TagsRef)
                       @@ ("Loop" :> RefTo("#/components/schemas/Loop"))
                       @@ ("Name" :> TString)
                       @@ (IF by_ref THEN "Form" :> UploadForm(prop) ELSE <<>>))
        components == Map(("schemas" :> schemas)
                          @@ (IF route = "inline" THEN <<>>
                              ELSE "requestBodies" :> Map("Upload" :> body)))
        request_body == IF route = "inline" THEN body
                        ELSE RefTo("#/components/requestBodies/Upload")
    IN  Map(("components" :> components)
            @@ (IF route = "components" THEN <<>>
                ELSE "paths" :> Map("/upload" :> Map("post" :> Map("requestBody" :> request_body)))))

InitMultipart ==
    /\ \E prop \in TagsProps, by_ref \in BOOLEAN, kinds \in ContentKinds,
          route \in BodyRoutes, described \in BOOLEAN :
          spec = MultipartDoc(prop, by_ref, kinds, route, described)
    /\ hist = <<spec>>
    /\ plan = Twice("fix_multipart_array_refs")

SpecMultipart == InitMultipart /\ [][FixMultipartArrayRefs]_vars

(***************************************************************************)
(* Properties of fix_multipart_array_refs (SpecMultipart)                  *)
(***************************************************************************)
\* where the request body of a document of InitMultipart stands
BodyPath(route) ==
    IF route = "inline" THEN <<"paths", "/upload", "post", "requestBody">>
    ELSE <<"components", "requestBodies", "Upload">>

\* where the schema of the multipart content entry stands
FormPath(by_ref, route) ==
    IF by_ref THEN <<"components", "schemas", "Form">>
    ELSE BodyPath(route) \o <<"content", "multipart/form-data", "schema">>

\* the values of TagsProps that are references resolving, along the chain of
\* local references, to the array schema Tags
ArrayRefs ==
    {TagsRef,
     RefTo("#/components/schemas/TagsAlias"),
     Map(("$ref" :> Str("#/components/schemas/Tags")) @@ ("description" :> Str("own")))}

\* {type: "array", items: the items of Tags, description when Tags has one}
InlinedTags(described) ==
    Map(("type" :> Str("array")) @@ ("items" :> TString)
        @@ (IF described THEN "description" :> Str("d") ELSE <<>>))

RECURSIVE OutsideMultipart(_)
OutsideMultipart(d) ==
    IF IsDict(d)
    THEN Map([x \in {y \in DOMAIN d.m : ~ContainsMultipart(y)} |-> OutsideMultipart(d.m[x])])
    ELSE IF IsList(d) THEN List([i \in 1..Len(d.s) |-> OutsideMultipart(d.s[i])])
    ELSE d

\* C19: fix_multipart_array_refs changes nothing outside the multipart content
\* entries: every schema under components.schemas and every application/json
\* entry is the same before and after, also when the multipart entry's schema is
\* a $ref to a shared component schema.
C19_OnlyMultipartTouched ==
    Len(hist) >= 2 => OutsideMultipart(hist[2]) = OutsideMultipart(hist[1])

(***************************************************************************)
(* SpecResolve: _resolve_ref applied once to a reference string and a root *)
(***************************************************************************)
RefStrings ==
    {"#/components/schemas/Tags", "#/components/schemas/Missing",
     "#/components/schemas/Tags/items", "#/components/schemas/Tags/type",
     "#/components/schemas/Tags/type/x", "#/components/schemas/Tags/",
     "#/components//schemas/Tags", "#//components/schemas/Tags",
     "#/#/components/schemas/Tags", "#/components", "#/", "#", "",
     "components/schemas/Tags", "/components/schemas/Tags",
     "other.yaml#/components/schemas/Tags", "#/components/requestBodies/Upload"}

ResolveRoots ==
    {Map("components" :> Map("schemas" :> Map("Tags" :> TagsSchema))),
     Map("components" :> Map("schemas" :> Map("Name" :> TString))),
     Map("components" :> Map("schemas" :> Map("Tags" :> Null))),
     Map("components" :> Map("schemas" :> List(<<TagsSchema>>))),
     Map("components" :> Str("x")),
     Map(("components" :> Map("requestBodies" :> Map("Upload" :> UploadForm(TagsRef))))
         @@ ("" :> Map("components" :> Map("schemas" :> Map("Tags" :> TString))))),
     EmptyMap}

\* plan holds the call and its reference string, hist the root and then the
\* value returned
InitResolve ==
    /\ spec \in ResolveRoots
    /\ hist = <<spec>>
    /\ \E ref_string \in RefStrings : plan = <<"_resolve_ref", ref_string>>

\* _resolve_ref only reads the tree: spec stays as it is
ResolveRef ==
    /\ plan[1] = "_resolve_ref"
    /\ Len(hist) = 1
    /\ hist' = Append(hist, _resolve_ref(Str(plan[2]), spec))
    /\ UNCHANGED <<spec, plan>>

SpecResolve == InitResolve /\ [][ResolveRef]_vars

(***************************************************************************)
(* Properties of _resolve_ref (SpecResolve)                                *)
(***************************************************************************)
\* the path segments of a reference that begins with "#/": the parts between
\* the slashes of what follows "#/"
Segments(ref_string) ==
    LET toks == Tokens(ref_string)
        segs == Split(SubSeq(toks, 3, Len(toks)), "/")
    IN  [i \in 1..Len(segs) |-> Join(segs[i])]

\* C20: _resolve_ref returns not-found (Null), without raising and without
\* changing the tree, for a reference that does not begin with "#/" and for a
\* "#/..." reference of which a segment is missing or would index a non-mapping;
\* otherwise it returns the node reached by following the segments as mapping
\* keys from the root.
C20_ResolveAsStated ==
    Len(hist) = 2 =>
        /\ spec = hist[1]
        /\ hist[2] = IF IsLocalRef(plan[2]) THEN NodeAt(hist[1], Segments(plan[2]))
                     ELSE Null

(***************************************************************************)
(* SpecIsArray: _is_array_schema applied once to a schema and a root whose *)
(* component schemas form chains and cycles of references                  *)
(***************************************************************************)
\* plan holds the call and its schema, hist the root and then the value returned
InitIsArray ==
    LET Schemas(tags, alias, form, loop, name) ==
            Map("components" :> Map("schemas" :>
                Map(("Tags" :> tags) @@ ("TagsAlias" :> alias) @@ ("Form" :> form)
                    @@ ("Loop" :> loop) @@ ("Name" :> name))))
        roots ==
            {Schemas(TagsSchema, TagsRef, RefTo("#/components/schemas/TagsAlias"),
                     RefTo("#/components/schemas/Loop"), TString),
             Schemas(RefTo("#/components/schemas/TagsAlias"), FormRef, TagsRef,
                     TagsRef, Map(("$ref" :> Str("#/components/schemas/Missing"))
                                  @@ ("type" :> Str("array")))),
             Schemas(Map("type" :> Str("array")),
                     Map(("$ref" :> Str("#/components/schemas/Tags")) @@ ("type" :> Str("string"))),
                     Map("type" :> List(<<Str("array")>>)),
                     RefTo("#/components/schemas/Form"), Null),
             Schemas(RefTo("#/components/schemas/Name"), TagsRef, TagsSchema,
                     RefTo("#/components/schemas/TagsAlias"),
                     RefTo("#/components/schemas/Loop")),
             EmptyMap}
        schemas ==
            {RefTo(r) : r \in {"#/components/schemas/Tags", "#/components/schemas/TagsAlias",
                               "#/components/schemas/Form", "#/components/schemas/Loop",
                               "#/components/schemas/Name", "#/components/schemas/Missing",
                               "#/components/schemas/Tags/items",
                               "other.yaml#/components/schemas/Tags"}}
            \cup {TagsSchema, TString, EmptyMap,
                  Map(("$ref" :> Str("#/components/schemas/Loop")) @@ ("type" :> Str("array"))),
                  Map(("$ref" :> Str("#/components/schemas/Tags")) @@ ("type" :> Str("string")))}
    IN  /\ spec \in roots
        /\ hist = <<spec>>
        /\ \E schema \in schemas : plan = <<"_is_array_schema", schema>>

\* _is_array_schema only reads the tree: spec stays as it is
IsArraySchema ==
    /\ plan[1] = "_is_array_schema"
    /\ Len(hist) = 1
    /\ hist' = Append(hist, _is_array_schema(plan[2], spec, {}))
    /\ UNCHANGED <<spec, plan>>

SpecIsArray == InitIsArray /\ [][IsArraySchema]_vars

(***************************************************************************)
(* Properties of _is_array_schema (SpecIsArray)                            *)
(***************************************************************************)
Cycle == [k |-> "cycle"]

\* where the chain of references of a schema ends: the first mapping without
\* $ref, Null when a reference does not resolve, Cycle when more references
\* were followed than there are reference strings
RECURSIVE FollowChain(_, _, _)
FollowChain(schema, root, left) ==
    IF ~Has(schema, "$ref") THEN schema
    ELSE IF left = {} THEN Cycle
    ELSE LET resolved == _resolve_ref(schema.m["$ref"], root)
         IN  IF resolved = Null THEN Null
             ELSE FollowChain(resolved, root, left \ {CHOOSE s \in left : TRUE})

ChainEnd(schema, root) == FollowChain(schema, root, DOMAIN StrTokens)

\* C21: _is_array_schema returns (it does not raise), returns false for a schema
\* whose chain of $ref strings comes back to a reference already followed, and
\* returns true only when the chain ends at a mapping without $ref whose type is
\* "array".
C21_CycleSafe ==
    Len(hist) = 2 =>
        LET end == ChainEnd(plan[2], hist[1])
        IN  /\ hist[2] \in {Bool(TRUE), Bool(FALSE)}
            /\ end = Cycle => hist[2] = Bool(FALSE)
            /\ hist[2] = Bool(TRUE)
                  => (end \notin {Cycle, Null} /\ Get(end, "type") = Str("array"))

\* C21 witness: a reference into a cycle of three references (and not part of
\* it) was answered with false
C21_Witness ==
    /\ Len(hist) = 2
    /\ plan[2] = RefTo("#/components/schemas/Loop")
    /\ NodeAt(hist[1], <<"components", "schemas", "Loop">>) = TagsRef
    /\ NodeAt(hist[1], <<"components", "schemas", "Form">>) = TagsRef
    /\ hist[2] = Bool(FALSE)

(***************************************************************************)
(* Properties of fix_header_schemas (SpecIdem, the documents of HeaderDoc) *)
(***************************************************************************)
\* the entry Name of components.headers
HeaderOf(d) == NodeAt(d, <<"components", "headers", "Name">>)

\* C22: an entry of components.headers that is a mapping with neither schema nor
\* content and with a pure-schema keyword or a sequence-valued required gets a
\* schema sub-mapping holding every pure-schema keyword and the sequence-valued
\* required with their values, those keys gone from the header level;
\* description, example and examples stand at both levels; every other key is
\* unchanged at the header level.
C22_HeaderWrapped ==
    (Len(hist) >= 2 /\ plan[1] = "fix_header_schemas" /\ IsDict(HeaderOf(hist[1]))) =>
        LET n == HeaderOf(hist[1])
            o == HeaderOf(hist[2])
            Moves(key) == \/ key \in _PURE_SCHEMA_KEYS
                          \/ key = "required" /\ IsList(n.m["required"])
        IN  (/\ ~Has(n, "schema") /\ ~Has(n, "content")
             /\ \E key \in DOMAIN n.m : Moves(key))
            => /\ IsDict(o) /\ Has(o, "schema") /\ IsDict(o.m["schema"])
               /\ DOMAIN o.m \subseteq (DOMAIN n.m) \cup {"schema"}
               /\ DOMAIN o.m["schema"].m \subseteq DOMAIN n.m
               /\ \A key \in DOMAIN n.m :
                     LET at_header == Has(o, key) /\ o.m[key] = n.m[key]
                         in_schema == Has(o.m["schema"], key) /\ o.m["schema"].m[key] = n.m[key]
                     IN  IF Moves(key) THEN ~Has(o, key) /\ in_schema
                         ELSE IF key \in {"description", "example", "examples"}
                         THEN at_header /\ in_schema
                         ELSE at_header /\ ~Has(o.m["schema"], key)

\* C22 witness: a header with type, description, examples, deprecated and a
\* boolean required was wrapped
C22_Witness ==
    /\ Len(hist) = 2 /\ plan[1] = "fix_header_schemas"
    /\ IsDict(HeaderOf(hist[1]))
    /\ Has(HeaderOf(hist[1]), "deprecated") /\ Has(HeaderOf(hist[1]), "type")
    /\ HeaderOf(hist[2]).m["required"] = Bool(TRUE)
    /\ DOMAIN HeaderOf(hist[2]).m["schema"].m = {"type", "description", "examples"}


(***************************************************************************)
(* Properties of promote_misplaced_schemas (SpecIdem, the documents of     *)
(* HeaderDoc)                                                              *)
(***************************************************************************)
\* the tree holds the string s as a key or as a value
RECURSIVE HoldsString(_, _)
HoldsString(node, s) ==
    IF IsStr(node) THEN node.v = s
    ELSE IF IsList(node) THEN \E i \in 1..Len(node.s) : HoldsString(node.s[i], s)
    ELSE IF IsDict(node)
    THEN \E key \in DOMAIN node.m : key = s \/ HoldsString(node.m[key], s)
    ELSE FALSE

HeadersOf(d) == NodeAt(d, <<"components", "headers">>)
SchemasOf(d) == NodeAt(d, <<"components", "schemas">>)

\* the document refers to #/components/schemas/{name}
ReferencedAsSchema(d, name) == HoldsString(d, Join(SchemaRefPrefix \o Tokens(name)))

InSchemas(d, name) == IsDict(SchemasOf(d)) /\ Has(SchemasOf(d), name)

\* the entry qualifies for promotion: referenced, and absent from components.schemas
Qualifies(d, name) == ReferencedAsSchema(d, name) /\ ~InSchemas(d, name)

\* the first call moved the header entry: its nested schema if it has one, else
\* the header itself, is the schema of that name, and the header is gone
Moved(name) ==
    LET header == HeadersOf(hist[1]).m[name]
    IN  /\ IsDict(HeadersOf(hist[2])) /\ ~Has(HeadersOf(hist[2]), name)
        /\ InSchemas(hist[2], name)
        /\ SchemasOf(hist[2]).m[name] =
              IF Has(header, "schema") THEN header.m["schema"] ELSE header

\* the first call left the header entry and the schema of that name alone
LeftInPlace(name) ==
    /\ IsDict(HeadersOf(hist[2])) /\ Has(HeadersOf(hist[2]), name)
    /\ HeadersOf(hist[2]).m[name] = HeadersOf(hist[1]).m[name]
    /\ InSchemas(hist[2], name) = InSchemas(hist[1], name)
    /\ InSchemas(hist[1], name) => SchemasOf(hist[2]).m[name] = SchemasOf(hist[1]).m[name]

\* C23: promote_misplaced_schemas moves a mapping of components.headers into
\* components.schemas exactly when its name is referenced as
\* #/components/schemas/{name} and absent from components.schemas; the moved
\* value is the nested schema if there is one, else the header; every other
\* entry, and a schema that exists already, stays as it was.
C23_PromotedExactlyWhen ==
    (plan[1] = "promote_misplaced_schemas" /\ Len(hist) >= 2 /\ IsDict(HeadersOf(hist[1])))
    => \A name \in DOMAIN HeadersOf(hist[1]).m :
          IsDict(HeadersOf(hist[1]).m[name])
          => IF Qualifies(hist[1], name) THEN Moved(name) ELSE LeftInPlace(name)


\* C30: promote_misplaced_schemas leaves the document unchanged when no entry
\* of components.headers is both referenced as #/components/schemas/{name} and
\* absent from components.schemas: the returned tree equals the input, and
\* components.schemas is created only by a promotion.
C30_UnchangedWhenNoneQualifies ==
    (/\ plan[1] = "promote_misplaced_schemas" /\ Len(hist) >= 2
     /\ IsDict(HeadersOf(hist[1]))
     /\ \A name \in DOMAIN HeadersOf(hist[1]).m : ~Qualifies(hist[1], name))
    => hist[2] = hist[1]


(***************************************************************************)
(* SpecPipeXY: one run of transform_spec on a document whose schema Form   *)
(* has properties x and y and a required sequence, with or without a       *)
(* multipart upload of Form                                                *)
(***************************************************************************)
InitPipeXY ==
    /\ \E x \in PropNodes \cup
                {Map("oneOf" :> List(<<TNull, TInteger>>)),
                 Map(("anyOf" :> List(<<TString, TNull>>)) @@ ("description" :> Str("d"))),
                 Map(("required" :> List(<<Str("a")>>)) @@ ("description" :> Str("d"))),
                 Map(("type" :> Str("object"))
                     @@ ("properties" :> Map(("a" :> TFloat) @@ ("nullable" :> TString)))
                     @@ ("required" :> List(<<Str("b")>>))),
                 Map(("type" :> Str("object"))
                     @@ ("properties" :>
                            Map(("a" :> TString) @@ ("required" :> List(<<Str("a")>>))))
                     @@ ("required" :> List(<<Str("required"), Str("a")>>)))},
          y \in {TString, TInteger, TNullable, TagsRef},
          required \in SeqsUpTo(RequiredNamesXY, MaxRequired) \cup {<<>>},
          version \in Versions, upload \in BOOLEAN :
          LET items == Map(("type" :> Str("object")) @@ ("required" :> List(<<Str("a")>>)))
              tags == Map(("type" :> Str("array")) @@ ("items" :> items))
          IN  spec = Map(("openapi" :> Str(version))
                         @@ ("components" :> Map("schemas" :>
                                Map(("Form" :> ObjectXY(x, y, required)) @@ ("Tags" :> tags))))
                         @@ (IF upload THEN "paths" :> UploadPaths ELSE <<>>))
    /\ hist = <<spec>>
    /\ plan = Pipeline

SpecPipeXY == InitPipeXY /\ [][Next]_vars

(***************************************************************************)
(* Properties of transform_spec (SpecPipeXY)                               *)
(***************************************************************************)
\* the document after the seven stages of the run
PipeDone == Len(hist) = Len(Pipeline) + 1

\* a nullability marker as the nullability stage reads it
HasNullMarker(schema) ==
    IsDict(schema) /\ (Has(schema, "nullable") \/ NullableAsStated(schema))

\* a union of {type: "null"} and exactly one other member, neither the member
\* nor the schema carrying another nullability marker
NullUnionOfOne(schema) ==
    /\ IsDict(schema) /\ ~Has(schema, "nullable")
    /\ ~(IsList(Get(schema, "type")) /\ Str("null") \in Elems(schema.m["type"]))
    /\ \E key \in UnionKeys :
          /\ Has(schema, key) /\ ~Has(schema, OtherKey(key))
          /\ IsList(schema.m[key]) /\ Len(schema.m[key].s) = 2
          /\ \E i \in 1..2 :
                /\ schema.m[key].s[i] = TNull
                /\ schema.m[key].s[3 - i] # TNull
                /\ ~HasNullMarker(schema.m[key].s[3 - i])

\* the member of such a union that is not {type: "null"}
OtherMember(schema) ==
    LET key == CHOOSE k \in UnionKeys : Has(schema, k)
    IN  CHOOSE m \in Elems(schema.m[key]) : m # TNull

\* C24: after a run of the pipeline a required property whose schema is a union
\* of {type: "null"} and exactly one other member without any other nullability
\* marker is that member (the union key gone, the member's keys in its place)
\* and is still in required, and a required sibling marked nullable: true is no
\* longer in required.
C24_UnwrappedStaysRequired ==
    PipeDone =>
        LET n == FormOf(hist[1])
            o == FormOf(hist[Len(hist)])
            x == n.m["properties"].m["x"]
            y == n.m["properties"].m["y"]
        IN  /\ (InSeq(Str("x"), RequiredOf(n)) /\ NullUnionOfOne(x))
               => /\ IsDict(o) /\ InSeq(Str("x"), RequiredOf(o))
                  /\ LET after == o.m["properties"].m["x"]
                         member == OtherMember(x)
                     IN  /\ \A key \in UnionKeys : ~Has(after, key)
                         /\ \A key \in DOMAIN member.m :
                               Has(after, key) /\ after.m[key] = member.m[key]
            /\ (InSeq(Str("y"), RequiredOf(n)) /\ Get(y, "nullable") = Bool(TRUE))
               => IsDict(o) /\ ~InSeq(Str("y"), RequiredOf(o))

\* both in one run: x unwrapped and kept, y dropped
C24_Witness ==
    /\ PipeDone
    /\ NullUnionOfOne(FormOf(hist[1]).m["properties"].m["x"])
    /\ FormOf(hist[1]).m["properties"].m["y"] = TNullable
    /\ RequiredOf(FormOf(hist[1])) = <<Str("x"), Str("y")>>
    /\ RequiredOf(FormOf(hist[Len(hist)])) = <<Str("x")>>
    /\ FormOf(hist[Len(hist)]).m["properties"].m["x"] = TString


(***************************************************************************)
(* Properties of remove_null_anyof on a node with default: null (SpecOp1)  *)
(***************************************************************************)
\* C25: when removing the {type: "null"} members of a union leaves two or more
\* members, a literal default: null on the node is kept; it is stripped only
\* when the union collapses to zero or one member.
C25_DefaultNullKept ==
    Len(hist) >= 2 =>
        \A key \in UnionKeys :
            LET n == Focus(hist[1])
                o == Focus(hist[2])
                kept == SelectSeq(n.m[key].s, NotExactlyNull)
            IN  (/\ UnionAt(n, key) /\ ~Has(n, OtherKey(key))
                 /\ Len(kept) < Len(n.m[key].s)
                 /\ Has(n, "default") /\ n.m["default"] = Null)
                => /\ IsDict(o)
                   /\ Len(kept) >= 2 => (Has(o, "default") /\ o.m["default"] = Null)
                   /\ Len(kept) <= 1 => ~(Has(o, "default") /\ o.m["default"] = Null)


(***************************************************************************)
(* Properties of recursive_walk, seen through remove_null_anyof (SpecOp1)  *)
(***************************************************************************)
\* a member that is itself a union of one schema and {type: "null"}
NestedUnions ==
    {Map("anyOf" :> List(<<TString, TNull>>)), Map("oneOf" :> List(<<TInteger, TNull>>))}

\* what the transform makes of a member when the walk reaches it
MemberWalked(member) ==
    CASE member = Map("anyOf" :> List(<<TString, TNull>>)) -> TString
      [] member = Map("oneOf" :> List(<<TInteger, TNull>>)) -> TInteger
      [] OTHER -> member

\* C26: recursive_walk is pre-order and follows replacements.  A union node
\* whose transform returns its one remaining member, itself a union, ends as
\* that member untransformed (the transform ran on the node before its
\* descendants and is not run again on what it returned), and a union node that
\* keeps its union key ends with the sequence the transform returned, each
\* element replaced by its own walk result.
C26_PreOrderFollowsReplacement ==
    Len(hist) >= 2 =>
        \A key \in UnionKeys :
            LET n == Focus(hist[1])
                o == Focus(hist[2])
                kept == SelectSeq(n.m[key].s, TypeNotNull)
            IN  (UnionAt(n, key) /\ DOMAIN n.m = {key})
                => /\ (/\ Len(kept) = 1 /\ Len(n.m[key].s) > 1
                       /\ kept[1] \in NestedUnions
                       /\ Has(kept[1], key))
                      => o = kept[1]
                   /\ (Len(kept) >= 2 \/ (Len(kept) = 1 /\ Len(n.m[key].s) = 1))
                      => o = Map(key :> List([i \in 1..Len(kept) |-> MemberWalked(kept[i])]))

\* a replacement that is a union with its null member still in it
C26_Witness ==
    /\ Len(hist) = 2
    /\ Focus(hist[1]) = Map("anyOf" :> List(<<Map("anyOf" :> List(<<TString, TNull>>)), TNull>>))
    /\ Focus(hist[2]) = Map("anyOf" :> List(<<TString, TNull>>))


\* some mapping node of the tree has a required sequence and no properties
\* key, or a properties mapping beside a required sequence that is empty or
\* names something that is no key of properties
RECURSIVE DanglingRequired(_)
DanglingRequired(d) ==
    IF IsDict(d)
    THEN \/ /\ Has(d, "required") /\ IsList(d.m["required"])
            /\ \/ ~Has(d, "properties")
               \/ /\ IsDict(d.m["properties"])
                  /\ \/ Len(d.m["required"].s) = 0
                     \/ \E i \in 1..Len(d.m["required"].s) :
                           ~IsKeyOf(d.m["required"].s[i], d.m["properties"])
         \/ \E key \in DOMAIN d.m : DanglingRequired(d.m[key])
    ELSE IF IsList(d) THEN \E i \in 1..Len(d.s) : DanglingRequired(d.s[i])
    ELSE FALSE

\* C27: after a run of the pipeline every mapping node with a required sequence
\* has a properties key, and beside a properties mapping the sequence is
\* non-empty and names keys of properties only; multipart inlining, which runs
\* after the pruning, does not bring a dangling entry back.
C27_NoDanglingRequired == PipeDone => ~DanglingRequired(hist[Len(hist)])


(***************************************************************************)
(* Properties of transform_spec on the float alias (Spec)                  *)
(***************************************************************************)
\* some mapping node of the tree has type "float"
RECURSIVE HoldsFloatType(_)
HoldsFloatType(d) ==
    IF IsDict(d)
    THEN Get(d, "type") = Str("float") \/ \E key \in DOMAIN d.m : HoldsFloatType(d.m[key])
    ELSE IF IsList(d) THEN \E i \in 1..Len(d.s) : HoldsFloatType(d.s[i])
    ELSE FALSE

\* C28: after a run of the pipeline no mapping node of the result has type
\* "float", also where the scalar "float" only comes about when a later stage
\* flattens a type sequence such as ["float", "null"].
C28_NoFloatLeft ==
    Len(hist) > Len(Pipeline) => ~HoldsFloatType(hist[Len(Pipeline) + 1])


(***************************************************************************)
(* Properties of convert_nullable_to_3_1 as the fourth stage (SpecPipeXY)  *)
(***************************************************************************)
\* the places of the documents that hold an object schema: Form, and its
\* property x
ObjectPaths ==
    {<<"components", "schemas", "Form">>,
     <<"components", "schemas", "Form", "properties", "x">>}

\* the node has a properties mapping whose values are all mappings
MappingProperties(n) ==
    /\ IsDict(n) /\ Has(n, "properties") /\ IsDict(n.m["properties"])
    /\ \A name \in DOMAIN n.m["properties"].m : IsDict(n.m["properties"].m[name])

\* C29: convert_nullable_to_3_1 never adds or removes an entry of a properties
\* mapping whose values are mappings: the mapping has the same property names
\* before and after the pass, whatever the names are (a property named
\* "nullable" included).
C29_PropertyNamesKept ==
    (Len(hist) >= 5 /\ plan[4] = "convert_nullable_to_3_1")
    => \A path \in ObjectPaths :
          LET before == NodeAt(hist[4], path)
              after == NodeAt(hist[5], path)
          IN  MappingProperties(before)
              => /\ IsDict(after) /\ Has(after, "properties") /\ IsDict(after.m["properties"])
                 /\ DOMAIN after.m["properties"].m = DOMAIN before.m["properties"].m

====
